---- MODULE Spec2Model ----
(***************************************************************************)
(* Verification model of buwani25/Diabetes_predictor:                      *)
(*   services/agents/enhanced_eda_preprocess.py  (preprocessing pipeline)  *)
(*   services/app/services/prediction.py         (prediction service)      *)
(*                                                                         *)
(* Data representation.                                                    *)
(*  - A cell is <<>> (missing: NaN / pd.NA / None) or <<v>> (a value).     *)
(*  - A number is an integer count of ticks, Ticks ticks to 1.0, so that   *)
(*    18.5 is 18 * Ticks + Ticks \div 2.  Quartiles (quarters of a         *)
(*    difference) and IQR bounds (halves of an IQR) stay exact.            *)
(*  - A table (DataFrame) is [n, cols, dt, data]: row count, ordered       *)
(*    column names, dtype of each column, cells of each column.            *)
(***************************************************************************)
EXTENDS Integers, Sequences, FiniteSets, TLC

VARIABLES
    pc,         \* position of the running program in its code
    \* enhanced_preprocessing: its arguments, locals and output directory
    input,      \* [df, target_col, handle_outliers_method,
                \*  use_feature_engineering, seed]
    df_clean, df_ml, numeric_cols, categorical_cols,
    imputation_info, outlier_info, new_features, encoding_info,
    categorical_for_encoding, final_numeric_cols, scaler,
    feature_selection_applied, feature_scores,
    outdir,     \* file name -> content, the files written so far
    error,      \* the exception that ended the run, "" while there is none
    \* handle_outliers applied twice
    series,     \* the table handle_outliers is applied to
    passes,     \* results of the cap passes run so far
    \* feature_engineering applied to a table
    fe_in, fe_out,
    \* DiabetesPredictionService
    svc,        \* the attributes of the service object
    request,    \* user_input of the request being answered
    response,   \* the dict predict_diabetes_risk returned
    log,        \* the warnings and errors it logged
    \* joblib.dump onto scaler_path, and a reader of that path
    file,       \* the content of the path: <<>> (no file) or <<bytes>>
    writer,     \* position of the writer
    observed,   \* what the reader has read so far
    \* handle_high_cardinality_categorical applied to a table
    hc_in,      \* [df, categorical_cols, target_col, max_categories]
    hc_out,     \* [df, info, err]: what it returned, or the exception
    \* step 10 of enhanced_preprocessing applied to an encoded table
    sel_in,     \* [ml, target_col, seed]
    sel_out,    \* [df, applied, report, err]
    \* main
    main_in,    \* [file, outliers, no_feature_engineering]: the file at
                \* --input and the command line
    called,     \* the functions main has called so far
    reports,    \* the reports directory: <<>> (none) or <<set of file names>>
    exit_code,  \* -1 while the process runs, then its exit status
    \* enhanced_imputation applied to a table
    imp_in,     \* [df, numeric_cols, categorical_cols, target_col]
    imp_out     \* [df, info]: what it returned

pipe_vars == <<input, df_clean, df_ml, numeric_cols, categorical_cols,
               imputation_info, outlier_info, new_features, encoding_info,
               categorical_for_encoding, final_numeric_cols, scaler,
               feature_selection_applied, feature_scores, outdir, error>>
cap_vars == <<series, passes>>
fe_vars == <<fe_in, fe_out>>
svc_vars == <<svc, request, response, log>>
io_vars == <<file, writer, observed>>
hc_vars == <<hc_in, hc_out>>
sel_vars == <<sel_in, sel_out>>
main_vars == <<main_in, called, reports, exit_code>>
imp_vars == <<imp_in, imp_out>>
aux_vars == <<hc_vars, sel_vars, main_vars, imp_vars>>

\* everything enhanced_preprocessing does not touch
nonpipe_vars == <<cap_vars, fe_vars, svc_vars, io_vars, aux_vars>>

vars == <<pc, pipe_vars, nonpipe_vars>>

\* 1.0 in ticks: two capping passes each need three binary fraction digits.
Ticks == 8 * 8

-----------------------------------------------------------------------------
(* Cells and columns *)

NA == <<>>
IsNull(c) == c = <<>>
NotNull(c) == c # <<>>
V(c) == c[1]
Cell(v) == <<v>>

Range(s) == {s[i] : i \in DOMAIN s}

\* Series.dropna(): the values of the non-missing cells, in row order.
RECURSIVE DropNa(_)
DropNa(s) ==
    IF s = <<>> THEN <<>>
    ELSE IF IsNull(Head(s)) THEN DropNa(Tail(s))
    ELSE <<V(Head(s))>> \o DropNa(Tail(s))

\* Series.isnull().sum()
RECURSIVE NullCount(_)
NullCount(s) ==
    IF s = <<>> THEN 0
    ELSE (IF IsNull(Head(s)) THEN 1 ELSE 0) + NullCount(Tail(s))

\* Insertion of x into an ascending sequence of integers.
RECURSIVE InsertSorted(_, _)
InsertSorted(x, s) ==
    IF s = <<>> THEN <<x>>
    ELSE IF x <= Head(s) THEN <<x>> \o s
    ELSE <<Head(s)>> \o InsertSorted(x, Tail(s))

RECURSIVE SortInts(_)
SortInts(s) == IF s = <<>> THEN <<>> ELSE InsertSorted(Head(s), SortInts(Tail(s)))

\* The members of s that are in S, in the order of s.
RECURSIVE SelectSeq2(_, _)
SelectSeq2(s, S) ==
    IF s = <<>> THEN <<>>
    ELSE (IF Head(s) \in S THEN <<Head(s)>> ELSE <<>>) \o SelectSeq2(Tail(s), S)

RECURSIVE SumInts(_)
SumInts(s) == IF s = <<>> THEN 0 ELSE Head(s) + SumInts(Tail(s))

-----------------------------------------------------------------------------
(* Tables *)

EmptyTable == [n |-> 0, cols |-> <<>>, dt |-> <<>>, data |-> <<>>]

HasCol(df, c) == c \in Range(df.cols)

\* df[c] = values, for a column that exists (dtype kept unless given).
SetCol(df, c, values) == [df EXCEPT !.data = (c :> values) @@ df.data]

\* df[c] = values of dtype d; a new column is appended on the right.
PutCol(df, c, d, values) ==
    [n    |-> df.n,
     cols |-> IF HasCol(df, c) THEN df.cols ELSE Append(df.cols, c),
     dt   |-> (c :> d) @@ df.dt,
     data |-> (c :> values) @@ df.data]

\* pd.api.types.is_numeric_dtype
IsNumericDtype(d) == d \in {"int", "float", "bool"}

-----------------------------------------------------------------------------
(* Strings: Python's ordering and str.lower() on the strings of the model *)

Lex == <<"0", "0.0", "1", "1.0", "2019", "2019.0", "2022", "2022.0",
         "Female", "Male", "No", "Not Applicable", "Other", "Unknown",
         "current", "female", "high", "low", "male", "moderate", "nan",
         "never", "rural", "urban">>

\* sorted(S) for a set of strings
SortedStrings(S) == SelectSeq2(Lex, S)

Lower(x) ==
    CASE x = "Female" -> "female"
      [] x = "Male" -> "male"
      [] x = "No" -> "no"
      [] x = "Not Applicable" -> "not applicable"
      [] x = "Other" -> "other"
      [] x = "Unknown" -> "unknown"
      [] OTHER -> x

-----------------------------------------------------------------------------
(* enhanced_imputation *)

MedicalFeatures == {"bmi", "hbA1c_level", "blood_glucose_level", "sleep_hours"}
GenderLinked == {"gestational_history", "gestational_diabetes", "pregnancy_history"}
MalePatterns == {"male", "m", "man"}

\* Series.median(): NaN (NA) for a series without values.
Median(s) ==
    LET v == SortInts(DropNa(s))
        n == Len(v)
    IN  IF n = 0 THEN NA
        ELSE IF n % 2 = 1 THEN Cell(v[(n + 1) \div 2])
        ELSE Cell((v[n \div 2] + v[n \div 2 + 1]) \div 2)

\* Series.fillna(c): filling with NaN leaves the series as it is.
FillNa(s, c) == [i \in DOMAIN s |-> IF IsNull(s[i]) THEN c ELSE s[i]]

\* Series.mode(): the most frequent values, sorted; <<>> when there is none.
Mode(s) ==
    LET vals == Range(DropNa(s))
        cnt(x) == Cardinality({i \in DOMAIN s : s[i] = Cell(x)})
        best == {x \in vals : \A y \in vals : cnt(y) <= cnt(x)}
    IN  SortedStrings(best)

\* df.groupby(target)[col].transform(lambda x: x.fillna(x.median()) if
\* x.median() is not NaN else x.fillna(<global median>)).  groupby drops the
\* rows whose key is missing, and transform gives those rows NaN.
GroupMedianFill(s, key) ==
    [i \in DOMAIN s |->
        IF IsNull(key[i]) THEN NA
        ELSE LET grp == [j \in DOMAIN s |-> IF key[j] = key[i] THEN s[j] ELSE NA]
                 gm == Median(grp)
             IN  IF NotNull(s[i]) THEN s[i]
                 ELSE IF NotNull(gm) THEN gm
                 ELSE Median(s)]

\* One iteration of the numeric loop on a column with missing values: the
\* column after df_imputed[col] = ...
ImputeNumeric(df, col, target_col) ==
    LET s == df.data[col]
    IN  IF col \in MedicalFeatures /\ target_col # "" /\ HasCol(df, target_col)
        THEN GroupMedianFill(s, df.data[target_col])
        ELSE FillNa(s, Median(s))

ImputationMethod(col, target_col) ==
    IF col \in MedicalFeatures /\ target_col # "" THEN "group_median" ELSE "median"

\* Series.unique(): the distinct cells in order of first appearance.
RECURSIVE Unique(_)
Unique(s) ==
    IF s = <<>> THEN <<>>
    ELSE LET u == Unique(SubSeq(s, 1, Len(s) - 1))
         IN  IF s[Len(s)] \in Range(u) THEN u ELSE Append(u, s[Len(s)])

\* One iteration of the loop over the gender values, on column s.
GenderFill(s, gender, gender_val) ==
    IF IsNull(gender_val) THEN s
    ELSE LET mask == {i \in DOMAIN s : gender[i] = gender_val}
             part == [i \in DOMAIN s |-> IF i \in mask THEN s[i] ELSE NA]
             female_mode == Mode(part)
             fill == IF Lower(V(gender_val)) \in MalePatterns THEN Cell("Not Applicable")
                     ELSE IF Len(female_mode) > 0 THEN Cell(female_mode[1])
                     ELSE Cell("No")
         IN  [i \in DOMAIN s |-> IF i \in mask /\ IsNull(s[i]) THEN fill ELSE s[i]]

RECURSIVE GenderLoop(_, _, _)
GenderLoop(s, gender, gender_vals) ==
    IF gender_vals = <<>> THEN s
    ELSE GenderLoop(GenderFill(s, gender, Head(gender_vals)), gender, Tail(gender_vals))

\* One iteration of the categorical loop: acc = [df, info].
ImputeCategorical(acc, col) ==
    LET s == acc.df.data[col]
        missing_count == NullCount(s)
        has_gender == HasCol(acc.df, "gender") \/ HasCol(acc.df, "sex")
        gender_col == IF HasCol(acc.df, "gender") THEN "gender" ELSE "sex"
        mode_val == Mode(s)
        filled ==
            IF Lower(col) \in GenderLinked
            THEN IF has_gender
                 THEN GenderLoop(s, acc.df.data[gender_col], Unique(acc.df.data[gender_col]))
                 ELSE FillNa(s, Cell("Not Applicable"))
            ELSE IF Len(mode_val) > 0 THEN FillNa(s, Cell(mode_val[1]))
            ELSE FillNa(s, Cell("Unknown"))
        method ==
            IF Lower(col) \in GenderLinked
            THEN (IF has_gender THEN "gender_aware" ELSE "not_applicable")
            ELSE IF Len(mode_val) > 0 THEN "mode"
            ELSE "unknown"
    IN  IF missing_count > 0
        THEN [df |-> SetCol(acc.df, col, filled),
              info |-> Append(acc.info, [column |-> col,
                                         missing_count |-> missing_count,
                                         imputation_method |-> method])]
        ELSE acc

\* The numeric loop. An iteration writes its own column only and reads, besides
\* it, the target column, which is no numeric feature column: the loop is the
\* map of ImputeNumeric over the columns with missing values, and
\* imputation_info lists them in the order of numeric_cols.
NumericLoop(df, cols, target_col) ==
    LET missing == SelectSeq2(cols, {c \in Range(cols) : NullCount(df.data[c]) > 0})
    IN  [df   |-> [df EXCEPT !.data =
                      [c \in DOMAIN df.data |->
                          IF c \in Range(missing) THEN ImputeNumeric(df, c, target_col)
                          ELSE df.data[c]]],
         info |-> [k \in 1 .. Len(missing) |->
                      [column |-> missing[k],
                       missing_count |-> NullCount(df.data[missing[k]]),
                       imputation_method |-> ImputationMethod(missing[k], target_col)]]]

RECURSIVE CategoricalLoop(_, _)
CategoricalLoop(acc, cols) ==
    IF cols = <<>> THEN acc
    ELSE CategoricalLoop(ImputeCategorical(acc, Head(cols)), Tail(cols))

\* enhanced_imputation(df, numeric_cols, categorical_cols, target_col):
\* [df |-> df_imputed, info |-> imputation_info in insertion order]
EnhancedImputation(df, num_cols, cat_cols, target_col) ==
    CategoricalLoop(
        NumericLoop(df, num_cols, target_col),
        cat_cols)

-----------------------------------------------------------------------------
(* detect_outliers_iqr / handle_outliers *)

\* Series.quantile(k/4), linear interpolation over the non-missing values;
\* NA when there is none.
Quantile(s, k) ==
    LET v == SortInts(DropNa(s))
        n == Len(v)
        h == (n - 1) * k
        lo == h \div 4 + 1
        fr == h % 4
    IN  IF n = 0 THEN NA
        ELSE IF fr = 0 THEN Cell(v[lo])
        ELSE Cell(v[lo] + (fr * (v[lo + 1] - v[lo])) \div 4)

\* multiplier = 1.5 as MultNum / MultDen
MultNum == 3
MultDen == 2

\* [lower, upper] = [Q1 - multiplier*IQR, Q3 + multiplier*IQR]; NA, NA for a
\* column without values.
IqrBounds(s) ==
    LET q1 == Quantile(s, 1)
        q3 == Quantile(s, 3)
    IN  IF IsNull(q1) THEN [lower |-> NA, upper |-> NA]
        ELSE LET iqr == V(q3) - V(q1)
             IN  [lower |-> Cell(V(q1) - (MultNum * iqr) \div MultDen),
                  upper |-> Cell(V(q3) + (MultNum * iqr) \div MultDen)]

\* (series < lower_bound) | (series > upper_bound); comparisons with NaN are
\* False.
IsOutlier(c, b) ==
    /\ NotNull(c)
    /\ NotNull(b.lower)
    /\ (V(c) < V(b.lower) \/ V(c) > V(b.upper))

DetectOutliersIqr(s) ==
    LET b == IqrBounds(s) IN [i \in DOMAIN s |-> IsOutlier(s[i], b)]

OutlierCount(s) == Cardinality({i \in DOMAIN s : DetectOutliersIqr(s)[i]})

\* cap mode without its second np.where: values above the upper bound stay
CapCellNoUpper(c, b) ==
    IF IsNull(c) THEN c
    ELSE IF V(c) < V(b.lower) THEN b.lower
    ELSE c

\* cap mode with the bounds exchanged: a value outside goes to the far bound
CapCellFarBound(c, b) ==
    IF IsNull(c) THEN c
    ELSE IF V(c) < V(b.lower) THEN b.upper
    ELSE IF V(c) > V(b.upper) THEN b.lower
    ELSE c

\* The two np.where of cap mode.
CapCell(c, b) ==
    IF IsNull(c) THEN c
    ELSE IF V(c) < V(b.lower) THEN b.lower
    ELSE IF V(c) > V(b.upper) THEN b.upper
    ELSE c

CapSeries(s) ==
    LET b == IqrBounds(s) IN [i \in DOMAIN s |-> CapCell(s[i], b)]

\* df_clean[~outliers]: the rows of df whose index is not in drop.
RECURSIVE KeepIdx(_, _, _)
KeepIdx(s, drop, i) ==
    IF i > Len(s) THEN <<>>
    ELSE (IF i \in drop THEN <<>> ELSE <<s[i]>>) \o KeepIdx(s, drop, i + 1)

DropRows(df, drop) ==
    [df EXCEPT !.n = df.n - Cardinality(drop \cap (1 .. df.n)),
               !.data = [c \in DOMAIN df.data |-> KeepIdx(df.data[c], drop, 1)]]

\* One iteration of the loop of handle_outliers over numeric_cols:
\* acc = [df, info], len0 = len(df) of the argument table.
OutlierStep(acc, col, method, len0) ==
    LET s == acc.df.data[col]
        mask == DetectOutliersIqr(s)
        cnt == OutlierCount(s)
        df2 == IF cnt > 0 /\ method = "cap" THEN SetCol(acc.df, col, CapSeries(s))
               ELSE IF cnt > 0 /\ method = "remove"
                    THEN DropRows(acc.df, {i \in DOMAIN s : mask[i]})
               ELSE acc.df
        rec == [outlier_count |-> cnt,
                \* round(cnt / len(df) * 100, 2), in hundredths of a percent
                outlier_percentage |-> (cnt * 10000) \div len0,
                method_applied |-> IF cnt > 0 THEN method ELSE "none"]
    IN  [df |-> df2, info |-> (col :> rec) @@ acc.info]

RECURSIVE OutlierLoop(_, _, _, _)
OutlierLoop(acc, cols, method, len0) ==
    IF cols = <<>> THEN acc
    ELSE OutlierLoop(OutlierStep(acc, Head(cols), method, len0), Tail(cols), method, len0)

\* The loop when no row is removed (method 'cap' or 'none'): an iteration reads
\* and writes its own column only, so the loop is a map over the columns.
OutlierMap(df, cols, method) ==
    [df   |-> [df EXCEPT !.data =
                  [c \in DOMAIN df.data |->
                      IF c \in Range(cols) /\ method = "cap" /\ OutlierCount(df.data[c]) > 0
                      THEN CapSeries(df.data[c]) ELSE df.data[c]]],
     info |-> [c \in Range(cols) |->
                  [outlier_count |-> OutlierCount(df.data[c]),
                   outlier_percentage |-> (OutlierCount(df.data[c]) * 10000) \div df.n,
                   method_applied |-> IF OutlierCount(df.data[c]) > 0 THEN method
                                      ELSE "none"]]]

\* handle_outliers(df, numeric_cols, method): [df |-> df_clean, info |-> outlier_info]
HandleOutliers(df, num_cols, method) ==
    IF method = "remove"
    THEN OutlierLoop([df |-> df, info |-> <<>>], num_cols, method, df.n)
    ELSE OutlierMap(df, num_cols, method)

-----------------------------------------------------------------------------
(* feature_engineering *)

Num(x) == x * Ticks
Half == Ticks \div 2

\* bins=[0, 18.5, 25, 30, 35, inf] and bins=[0, 35, 45, 65, inf]; the last
\* edge, inf, is implicit.
BmiBins == <<0, Num(18) + Half, Num(25), Num(30), Num(35)>>
BmiLabels == <<"underweight", "normal", "overweight", "obese_1", "obese_2">>
AgeBins == <<0, Num(35), Num(45), Num(65)>>
AgeLabels == <<"low_risk", "moderate_risk", "high_risk", "very_high_risk">>

\* pd.cut(x, bins, labels) with its default right=True: x falls in bin i when
\* bins[i] < x <= bins[i+1]; a value not above the first edge, or missing,
\* gets no label (NaN).
CutCell(c, bins, labels) ==
    IF IsNull(c) \/ V(c) <= bins[1] THEN NA
    ELSE LET above == {i \in DOMAIN bins : bins[i] < V(c)}
             i == CHOOSE k \in above : \A j \in above : j <= k
         IN  Cell(labels[i])

Cut(s, bins, labels) == [i \in DOMAIN s |-> CutCell(s[i], bins, labels)]

HealthIndicators == <<"hypertension", "heart_disease", "family_history">>

\* DataFrame[cols].sum(axis=1): missing cells are skipped.
RowSum(df, cols) ==
    [i \in 1 .. df.n |->
        Cell(SumInts([k \in DOMAIN cols |->
                        IF IsNull(df.data[cols[k]][i]) THEN 0
                        ELSE V(df.data[cols[k]][i])]))]

\* physical_activity.map({'low': 0, 'moderate': 1, 'high': 2}).fillna(0)
ActivityScore(c) ==
    IF IsNull(c) THEN Cell(0)
    ELSE IF V(c) = "low" THEN Cell(Num(0))
    ELSE IF V(c) = "moderate" THEN Cell(Num(1))
    ELSE IF V(c) = "high" THEN Cell(Num(2))
    ELSE Cell(0)

\* 2 if 7 <= x <= 9 else (1 if 6 <= x <= 10 else 0) if pd.notna(x) else 0
SleepQuality(c) ==
    IF NotNull(c) /\ Num(7) <= V(c) /\ V(c) <= Num(9) THEN Cell(Num(2))
    ELSE IF NotNull(c)
         THEN (IF Num(6) <= V(c) /\ V(c) <= Num(10) THEN Cell(Num(1)) ELSE Cell(0))
    ELSE Cell(0)

\* environmental_risk * urban_rural.map({'urban': 1.1, 'rural': 0.9}).fillna(1.0)
LocationRisk(e, u) ==
    IF IsNull(e) THEN NA
    ELSE IF NotNull(u) /\ V(u) = "urban" THEN Cell((V(e) * 11) \div 10)
    ELSE IF NotNull(u) /\ V(u) = "rural" THEN Cell((V(e) * 9) \div 10)
    ELSE e

\* The five blocks of feature_engineering, each [df, new_features] -> same.
FeBmi(a, df0) ==
    IF HasCol(df0, "bmi")
    THEN [df |-> PutCol(a.df, "bmi_risk_level", "category",
                        Cut(a.df.data["bmi"], BmiBins, BmiLabels)),
          new_features |-> Append(a.new_features, "bmi_risk_level")]
    ELSE a

FeAge(a, df0) ==
    IF HasCol(df0, "age")
    THEN [df |-> PutCol(a.df, "age_diabetes_risk", "category",
                        Cut(a.df.data["age"], AgeBins, AgeLabels)),
          new_features |-> Append(a.new_features, "age_diabetes_risk")]
    ELSE a

FeHealth(a, df0) ==
    LET available == SelectSeq2(HealthIndicators, Range(df0.cols))
    IN  IF available # <<>>
        THEN [df |-> PutCol(a.df, "health_risk_score", "float", RowSum(a.df, available)),
              new_features |-> Append(a.new_features, "health_risk_score")]
        ELSE a

FeLifestyle(a, df0) ==
    LET a1 == IF HasCol(df0, "physical_activity")
              THEN [df |-> PutCol(a.df, "activity_score", "float",
                                  [i \in 1 .. a.df.n |->
                                      ActivityScore(a.df.data["physical_activity"][i])]),
                    new_features |-> Append(a.new_features, "activity_score")]
              ELSE a
        a2 == IF HasCol(df0, "sleep_hours")
              THEN [df |-> PutCol(a1.df, "sleep_quality", "int",
                                  [i \in 1 .. a1.df.n |->
                                      SleepQuality(a1.df.data["sleep_hours"][i])]),
                    new_features |-> Append(a1.new_features, "sleep_quality")]
              ELSE a1
        lifestyle_factors ==
            (IF HasCol(df0, "physical_activity") THEN <<"activity_score">> ELSE <<>>)
            \o (IF HasCol(df0, "sleep_hours") THEN <<"sleep_quality">> ELSE <<>>)
    IN  IF lifestyle_factors # <<>>
        THEN [df |-> PutCol(a2.df, "lifestyle_score", "float", RowSum(a2.df, lifestyle_factors)),
              new_features |-> Append(a2.new_features, "lifestyle_score")]
        ELSE a2

FeLocation(a, df0) ==
    IF HasCol(df0, "environmental_risk") /\ HasCol(df0, "urban_rural")
    THEN [df |-> PutCol(a.df, "location_risk", "float",
                        [i \in 1 .. a.df.n |->
                            LocationRisk(a.df.data["environmental_risk"][i],
                                         a.df.data["urban_rural"][i])]),
          new_features |-> Append(a.new_features, "location_risk")]
    ELSE a

\* feature_engineering(df): [df |-> df_engineered, new_features |-> new_features]
FeatureEngineering(df) ==
    FeLocation(FeLifestyle(FeHealth(FeAge(FeBmi(
        [df |-> df, new_features |-> <<>>], df), df), df), df), df)

-----------------------------------------------------------------------------
(* enhanced_preprocessing: cleaning and column classification *)

Row(df, i) == [c \in DOMAIN df.data |-> df.data[c][i]]

\* df.drop_duplicates().reset_index(drop=True): a row equal to an earlier row
\* is dropped, the first occurrence is kept.
DropDuplicates(df) ==
    DropRows(df, {i \in 1 .. df.n : \E j \in 1 .. (i - 1) : Row(df, j) = Row(df, i)})

\* the numeric columns, the target among them
NumericColumnsWithTarget(df, target_col) ==
    SelectSeq2(df.cols, {c \in Range(df.cols) : IsNumericDtype(df.dt[c])})

\* df.select_dtypes(...).columns without the target
NumericColumns(df, target_col) ==
    SelectSeq2(df.cols, {c \in Range(df.cols) :
                            IsNumericDtype(df.dt[c]) /\ c # target_col})

ObjectColumns(df, target_col) ==
    SelectSeq2(df.cols, {c \in Range(df.cols) :
                            df.dt[c] = "object" /\ c # target_col})

RECURSIVE Without(_, _)
Without(s, x) ==
    IF s = <<>> THEN <<>>
    ELSE IF Head(s) = x THEN Tail(s)
    ELSE <<Head(s)>> \o Without(Tail(s), x)

\* str(x) of a number of dtype d: 1 -> "1" (int64), 1.0 -> "1.0" (float64)
StrOfNum(v, d) ==
    IF d = "int" THEN ToString(v \div Ticks)
    ELSE ToString(v \div Ticks) \o (IF v % Ticks = 0 THEN ".0" ELSE ".5")

\* Series.astype(str): a missing value becomes the string 'nan'.
AsTypeStr(s, d) ==
    [i \in DOMAIN s |-> IF IsNull(s[i]) THEN Cell("nan") ELSE Cell(StrOfNum(V(s[i]), d))]

\* Series.replace('nan', pd.NA)
ReplaceNan(s) == [i \in DOMAIN s |-> IF s[i] = Cell("nan") THEN NA ELSE s[i]]

\* Step 2 of enhanced_preprocessing: [df, numeric_cols, categorical_cols]
Classify(df, target_col) ==
    LET num0 == NumericColumns(df, target_col)
        cat0 == ObjectColumns(df, target_col)
        year == "year" \in Range(num0)
        num1 == IF year THEN Without(num0, "year") ELSE num0
        cat1 == IF year THEN Append(cat0, "year") ELSE cat0
        df1  == IF year
                THEN PutCol(df, "year", "object", AsTypeStr(df.data["year"], df.dt["year"]))
                ELSE df
        gest == "gestational_history" \in Range(num1)
        num2 == IF gest THEN Without(num1, "gestational_history") ELSE num1
        cat2 == IF gest THEN Append(cat1, "gestational_history") ELSE cat1
        df2  == IF gest
                THEN PutCol(df1, "gestational_history", "object",
                            ReplaceNan(AsTypeStr(df1.data["gestational_history"],
                                                 df1.dt["gestational_history"])))
                ELSE df1
    IN  [df |-> df2, numeric_cols |-> num2, categorical_cols |-> cat2]

-----------------------------------------------------------------------------
(* handle_high_cardinality_categorical *)

\* Series.nunique(): the number of distinct non-missing values
NUnique(s) == Cardinality(Range(DropNa(s)))

\* Series.value_counts().head(k).index: the k most frequent values; values of
\* equal count keep their order of first appearance.
TopCategories(s, k) ==
    LET u == Unique(DropNa(s))
        cnt(x) == Cardinality({i \in DOMAIN s : s[i] = Cell(x)})
        before(i, j) == cnt(u[i]) > cnt(u[j]) \/ (cnt(u[i]) = cnt(u[j]) /\ i < j)
        rank(i) == Cardinality({j \in DOMAIN u : before(j, i)})
    IN  {u[i] : i \in {j \in DOMAIN u : rank(j) < k}}

\* A grouping that keeps no category.
GroupOtherAll(s, top) == [i \in DOMAIN s |-> Cell("Other")]

\* Series.apply(lambda x: x if x in top_categories else 'Other')
GroupOther(s, top) ==
    [i \in DOMAIN s |-> IF NotNull(s[i]) /\ V(s[i]) \in top THEN s[i] ELSE Cell("Other")]

\* TargetEncoder().fit_transform(df[[col]], df[target]): one number per row.
\* The encoder shrinks each category's target mean towards the global mean
\* over shuffled folds; the model keeps the global mean of the target.
TargetEncode(s, y) ==
    LET m == SumInts(DropNa(y)) \div Len(y) IN [i \in DOMAIN s |-> Cell(m)]

TargetEncodedName(col) == col \o "_target_encoded"

\* One iteration of the loop: acc = [df, info, err].
HighCardStep(acc, col, target_col, max_categories, df0) ==
    LET s == acc.df.data[col]
        unique_count == NUnique(s)
        top == TopCategories(s, max_categories)
        grouping == [column |-> col, method |-> "frequency_grouping",
                     kept_categories |-> Cardinality(top) + 1,
                     new_column |-> "",
                     original_categories |-> unique_count]
    IN  IF acc.err # "" \/ unique_count <= max_categories THEN acc
        ELSE IF col = "location"
        THEN [acc EXCEPT !.df = SetCol(acc.df, col, GroupOther(s, top)),
                         !.info = Append(acc.info, grouping)]
        ELSE IF target_col # "" /\ HasCol(df0, target_col)
        THEN IF \E i \in 1 .. acc.df.n : IsNull(acc.df.data[target_col][i])
             THEN [acc EXCEPT !.err = "ValueError: Input y contains NaN"]
             ELSE [acc EXCEPT
                     !.df = PutCol(acc.df, TargetEncodedName(col), "float",
                                   TargetEncode(s, acc.df.data[target_col])),
                     !.info = Append(acc.info,
                                [column |-> col, method |-> "target_encoding",
                                 kept_categories |-> 0,
                                 new_column |-> TargetEncodedName(col),
                                 original_categories |-> unique_count])]
        ELSE [acc EXCEPT !.df = SetCol(acc.df, col, GroupOther(s, top)),
                         !.info = Append(acc.info, grouping)]

RECURSIVE HighCardLoop(_, _, _, _, _)
HighCardLoop(acc, cols, target_col, max_categories, df0) ==
    IF cols = <<>> THEN acc
    ELSE HighCardLoop(HighCardStep(acc, Head(cols), target_col, max_categories, df0),
                      Tail(cols), target_col, max_categories, df0)

\* handle_high_cardinality_categorical(df, categorical_cols, target_col,
\* max_categories): [df |-> df_processed, info |-> encoding_info, err]
HandleHighCardinality(df, cat_cols, target_col, max_categories) ==
    HighCardLoop([df |-> df, info |-> <<>>, err |-> ""],
                 cat_cols, target_col, max_categories, df)

-----------------------------------------------------------------------------
(* enhanced_preprocessing: one-hot encoding *)

DummyName(col, val) == col \o "_" \o val

\* An indicator column that reads the rows in reverse order.
DummyColumnReversed(s, val) ==
    [i \in DOMAIN s |-> IF s[Len(s) + 1 - i] = Cell(val) THEN Cell(1) ELSE Cell(0)]

\* The indicator column of value val: 1 where the cell holds val, else 0 (a
\* missing cell is 0 in every indicator column).
DummyColumn(s, val) ==
    [i \in DOMAIN s |-> IF s[i] = Cell(val) THEN Cell(1) ELSE Cell(0)]

DropCol(df, c) ==
    [n    |-> df.n,
     cols |-> SelectSeq2(df.cols, Range(df.cols) \ {c}),
     dt   |-> [x \in DOMAIN df.dt \ {c} |-> df.dt[x]],
     data |-> [x \in DOMAIN df.data \ {c} |-> df.data[x]]]

RECURSIVE AddDummies(_, _, _)
AddDummies(df, col, vals) ==
    IF vals = <<>> THEN df
    ELSE AddDummies(PutCol(df, DummyName(col, Head(vals)), "bool",
                           DummyColumn(df.data[col], Head(vals))),
                    col, Tail(vals))

\* pd.get_dummies(df, columns=columns, drop_first=False): the other columns
\* keep their place; each encoded column is dropped and its indicator columns
\* are appended, by encoded column, in the sorted order of its values.
RECURSIVE GetDummies(_, _)
GetDummies(df, columns) ==
    IF columns = <<>> THEN df
    ELSE LET col == Head(columns)
             vals == SortedStrings(Range(DropNa(df.data[col])))
         IN  GetDummies(DropCol(AddDummies(df, col, vals), col), Tail(columns))

-----------------------------------------------------------------------------
(* StandardScaler *)

Abs(x) == IF x < 0 THEN 0 - x ELSE x

RECURSIVE Gcd(_, _)
Gcd(a, b) == IF b = 0 THEN a ELSE Gcd(b, a % b)

RECURSIVE GcdAll(_)
GcdAll(v) == IF v = <<>> THEN 0 ELSE Gcd(Abs(Head(v)), GcdAll(Tail(v)))

RECURSIVE SumSq(_)
SumSq(v) == IF v = <<>> THEN 0 ELSE Head(v) * Head(v) + SumSq(Tail(v))

\* The statistics StandardScaler.fit keeps of one column, over its non-missing
\* values x = g * k / sqrt(rad) (k the integers summed):
\*   mean_ = g * sum / (n * sqrt(rad))
\*   var_  = g^2 * (n * sumsq - sum^2) / (n^2 * rad)
\*   scale_ = sqrt(var_), and 1 where var_ = 0
\* fit on a column of plain numbers (ticks):
FitColumn(s) ==
    LET v == DropNa(s)
        g0 == GcdAll(v)
        g == IF g0 = 0 THEN 1 ELSE g0
        k == [i \in DOMAIN v |-> v[i] \div g]
    IN  [n |-> Len(v), g |-> g, sum |-> SumInts(k), sumsq |-> SumSq(k), rad |-> 1]

VarNum(st) == st.n * st.sumsq - st.sum * st.sum

\* num / den in lowest terms (den > 0)
Reduce(num, den) ==
    LET d == Gcd(num, den) IN [num |-> num \div d, den |-> den \div d]

\* scaler.mean_ of a column, as its sign and its square; 0 / 0 stands for the
\* NaN of a column without values
MeanOf(st) ==
    IF st.n = 0 THEN [sign |-> 0, sq |-> [num |-> 0, den |-> 0]]
    ELSE [sign |-> IF st.sum > 0 THEN 1 ELSE IF st.sum < 0 THEN 0 - 1 ELSE 0,
          sq   |-> Reduce((st.g * st.sum) * (st.g * st.sum), st.n * st.n * st.rad)]

\* scaler.scale_ of a column, as its square; 1 for a column of variance 0
ScaleSqOf(st) ==
    IF st.n = 0 THEN [num |-> 0, den |-> 0]
    ELSE IF VarNum(st) = 0 THEN [num |-> 1, den |-> 1]
    ELSE Reduce(st.g * st.g * VarNum(st), st.n * st.n * st.rad)

\* x / scale_: scaling without centring on mean_
ScaleCellNoCentre(c, st) ==
    IF IsNull(c) THEN NA
    ELSE IF VarNum(st) = 0 THEN Cell([a |-> V(c), d |-> 1])
    ELSE Cell([a |-> st.n * (V(c) \div st.g), d |-> VarNum(st)])

\* (x - mean_) / scale_ of a plain number, as the pair [a, d] = a / sqrt(d)
ScaleCell(c, st) ==
    IF IsNull(c) THEN NA
    ELSE IF VarNum(st) = 0 THEN Cell([a |-> (st.n * V(c) - st.g * st.sum) \div st.n, d |-> 1])
    ELSE Cell([a |-> st.n * (V(c) \div st.g) - st.sum, d |-> VarNum(st)])

\* fit on a column of standardized cells [a, d]
FitScaled(s) ==
    LET v == DropNa(s)
        k == [i \in DOMAIN v |-> v[i].a]
    IN  [n |-> Len(v), g |-> 1, sum |-> SumInts(k), sumsq |-> SumSq(k),
         rad |-> IF v = <<>> THEN 1 ELSE v[1].d]

\* scaler = StandardScaler().fit(df[cols]): feature names in order with the
\* statistics of each
FitScaler(df, cols, standardized) ==
    [feature_names_in |-> cols,
     stats |-> [c \in Range(cols) |-> IF standardized THEN FitScaled(df.data[c])
                                      ELSE FitColumn(df.data[c])]]

\* df[cols] = scaler.transform(df[cols]): each column of cols by its own
\* statistics, as float64
ScaleColumns(df, cols, sc) ==
    [df EXCEPT
        !.dt   = [c \in DOMAIN df.dt |-> IF c \in Range(cols) THEN "float" ELSE df.dt[c]],
        !.data = [c \in DOMAIN df.data |->
                     IF c \in Range(cols)
                     THEN [i \in 1 .. df.n |-> ScaleCell(df.data[c][i], sc.stats[c])]
                     ELSE df.data[c]]]

-----------------------------------------------------------------------------
(* enhanced_preprocessing: feature selection *)

\* protected_features terms: gestational, pregnancy, hba1c, glucose, bmi, age.
\* The column names of the model that contain (lower-cased) one of them:
\* the base names, and every name derived from one of them (an
\* indicator column <base>_<value>, an encoding <base>_target_encoded).
ProtectedBases == {"age", "bmi", "gestational_history", "gestational_diabetes",
                   "pregnancy_history", "hbA1c_level", "blood_glucose_level",
                   "bmi_risk_level", "age_diabetes_risk"}

\* Further columns named after a protected term: glucose_1, glucose_2, ...
MaxGlucose == 20
GlucoseName(i) == "glucose_" \o ToString(i)

\* any(term in col.lower() for term in [...])
HasProtectedTerm(col) ==
    \/ col \in ProtectedBases
    \/ col \in {GlucoseName(i) : i \in 1 .. MaxGlucose}
    \/ \E b \in ProtectedBases :
          \/ col = TargetEncodedName(b)
          \/ \E v \in Range(Lex) : col = DummyName(b, v)

SelectThreshold == 50
NumericThreshold == 30
KBest == 15
ProtectedScore == 999

Min(a, b) == IF a < b THEN a ELSE b
Max(a, b) == IF a > b THEN a ELSE b

\* f_classif(X, y): one score per column of X.  The score is a function of the
\* data; the model draws it from a family indexed by seed.
ScoreMod == 7
FScore(i, seed) == (i * (seed + 1)) % ScoreMod

\* SelectKBest.get_support(): the k highest scores, the later column winning
\* a tie (stable argsort, last k).
Support(m, k, seed) ==
    {i \in 1 .. m :
        Cardinality({j \in 1 .. m :
            \/ FScore(j, seed) > FScore(i, seed)
            \/ (FScore(j, seed) = FScore(i, seed) /\ j > i)}) < k}

HasNaN(df, cols) == \E c \in Range(cols) : \E i \in 1 .. df.n : IsNull(df.data[c][i])

\* df[columns]: the named columns in the given order
SelectCols(df, columns) ==
    [n    |-> df.n,
     cols |-> columns,
     dt   |-> [c \in Range(columns) |-> df.dt[c]],
     data |-> [c \in Range(columns) |-> df.data[c]]]

\* Step 10: [df, applied, report, err]
FeatureSelection(ml, target_col, seed) ==
    LET X == SelectSeq2(ml.cols, Range(ml.cols) \ {target_col})
        numeric_feature_cols ==
            SelectSeq2(X, {c \in Range(X) : IsNumericDtype(ml.dt[c])})
        categorical_feature_cols ==
            SelectSeq2(X, {c \in Range(X) : ~IsNumericDtype(ml.dt[c])})
        protected_features == SelectSeq2(X, {c \in Range(X) : HasProtectedTerm(c)})
        protected_numeric ==
            SelectSeq2(protected_features, Range(numeric_feature_cols))
        selectable_numeric ==
            SelectSeq2(numeric_feature_cols,
                       Range(numeric_feature_cols) \ Range(protected_numeric))
        m == Len(selectable_numeric)
        k_selectable == Max(1, Min(KBest, m))
        support == Support(m, k_selectable, seed)
        selected_selectable ==
            SelectSeq2(selectable_numeric, {selectable_numeric[i] : i \in support})
        selected_features ==
            protected_numeric \o selected_selectable \o categorical_feature_cols
            \o <<target_col>>
        report ==
            {[feature |-> protected_numeric[i], score |-> ProtectedScore,
              selected |-> TRUE, protected |-> TRUE] : i \in DOMAIN protected_numeric}
            \cup
            {[feature |-> selectable_numeric[i], score |-> FScore(i, seed),
              selected |-> i \in support, protected |-> FALSE] : i \in 1 .. m}
        skip == [df |-> ml, applied |-> FALSE, report |-> {}, err |-> ""]
    IN  IF ~(target_col # "" /\ HasCol(ml, target_col)
             /\ Len(ml.cols) > SelectThreshold)
        THEN skip
        ELSE IF ~(m > 0 /\ Len(numeric_feature_cols) > NumericThreshold)
        THEN skip
        ELSE IF HasNaN(ml, selectable_numeric) \/ HasNaN(ml, <<target_col>>)
        THEN [skip EXCEPT !.applied = TRUE, !.err = "ValueError: Input contains NaN"]
        ELSE [df |-> SelectCols(ml, selected_features), applied |-> TRUE,
              report |-> report, err |-> ""]

-----------------------------------------------------------------------------
(* Input tables *)

\* The dtype pd.read_csv infers for a column: object when a cell holds text,
\* int64 for whole numbers without a missing cell, float64 otherwise.
InferDtype(s, is_text) ==
    IF is_text /\ (\E i \in DOMAIN s : NotNull(s[i])) THEN "object"
    ELSE IF \E i \in DOMAIN s : IsNull(s[i]) \/ V(s[i]) % Ticks # 0 THEN "float"
    ELSE "int"

TextColumns == {"gender", "sex", "location", "physical_activity", "urban_rural"}

\* The table of a sequence of rows (records of cells) with columns cols.
MkTable(rows, cols) ==
    LET data == [c \in Range(cols) |-> [i \in DOMAIN rows |-> rows[i][c]]]
    IN  [n |-> Len(rows), cols |-> cols,
         dt |-> [c \in Range(cols) |-> InferDtype(data[c], c \in TextColumns)],
         data |-> data]

CoreCols == <<"gender", "age", "bmi", "gestational_history", "diabetes">>

R(g, a, b, h, d) ==
    [gender |-> g, age |-> a, bmi |-> b, gestational_history |-> h, diabetes |-> d]

RowPool ==
    {R(Cell("Female"), Cell(Num(45)), Cell(Num(25)),        Cell(Num(1)), Cell(Num(1))),
     R(Cell("Male"),   Cell(Num(35)), Cell(Num(18) + Half), NA,           Cell(Num(0))),
     R(Cell("Female"), Cell(Num(65)), NA,                   NA,           Cell(Num(0))),
     R(NA,             Cell(Num(30)), Cell(Num(40)),        Cell(Num(0)), NA),
     R(Cell("Male"),   NA,            NA,                   NA,           Cell(Num(1)))}

MaxRows == 3

SmallTables ==
    UNION {{MkTable(rows, CoreCols) : rows \in [1 .. n -> RowPool]} : n \in 1 .. MaxRows}

\* Wide tables: two core rows and fill numeric columns x1 .. x<fill>, enough
\* for the encoded table to pass the column threshold of feature selection.
FillLo == 41
FillHi == 43
MaxSeed == 2

FillName(i) == "x" \o ToString(i)

\* df with the integer columns x1 .. x<fill> appended, column x<i> holding
\* i % 3 in every row
AddFill(df, fill) ==
    LET names == [i \in 1 .. fill |-> FillName(i)]
        idx(c) == CHOOSE i \in 1 .. fill : names[i] = c
    IN  [n    |-> df.n,
         cols |-> df.cols \o names,
         dt   |-> [c \in Range(df.cols) \cup Range(names) |->
                      IF c \in Range(df.cols) THEN df.dt[c] ELSE "int"],
         data |-> [c \in Range(df.cols) \cup Range(names) |->
                      IF c \in Range(df.cols) THEN df.data[c]
                      ELSE [r \in 1 .. df.n |-> Cell(Num(idx(c) % 3))]]]

WideCore(d2) ==
    MkTable(<<R(Cell("Female"), Cell(Num(45)), Cell(Num(25)), Cell(Num(1)), Cell(Num(1))),
              R(Cell("Male"), Cell(Num(35)), Cell(Num(18) + Half), NA, d2)>>,
            CoreCols)

WideTables ==
    {AddFill(WideCore(d2), fill) : d2 \in {Cell(Num(0)), NA}, fill \in FillLo .. FillHi}

SmallInputs ==
    [df : SmallTables, target_col : {"", "diabetes"},
     handle_outliers_method : {"cap", "remove", "none"},
     use_feature_engineering : BOOLEAN, seed : {0}]

WideInputs ==
    [df : WideTables, target_col : {"diabetes"},
     handle_outliers_method : {"cap"},
     use_feature_engineering : BOOLEAN, seed : 0 .. MaxSeed]

\* Tables with a year column and a numeric gestational_diabetes column: the
\* two core rows, the year 2019, 2022 or missing, the indicator 0, 1 or missing.
YearCells == {Cell(Num(2019)), Cell(Num(2022)), NA}
IndicatorColumns == {<<Cell(Num(1)), NA>>, <<NA, Cell(Num(0))>>, <<Cell(Num(0)), Cell(Num(1))>>}

YearTables ==
    {PutCol(PutCol(WideCore(d2), "year", InferDtype(ys, FALSE), ys),
            "gestational_diabetes", InferDtype(gd, FALSE), gd) :
        d2 \in {Cell(Num(0)), NA}, ys \in [1 .. 2 -> YearCells], gd \in IndicatorColumns}

YearInputs ==
    [df : YearTables, target_col : {"diabetes"},
     handle_outliers_method : {"cap"},
     use_feature_engineering : BOOLEAN, seed : {0}]

\* Tables with an outlier: four rows that differ in the target, the age of
\* the last one far from the others, in every order and with a repeated row.
OutlierRows ==
    <<R(Cell("Female"), Cell(Num(30)), Cell(Num(25)), Cell(Num(1)), Cell(Num(0))),
      R(Cell("Male"),   Cell(Num(31)), NA,            NA,           Cell(Num(1))),
      R(Cell("Female"), Cell(Num(32)), Cell(Num(27)), Cell(Num(0)), Cell(Num(2))),
      R(Cell("Female"), Cell(Num(90)), Cell(Num(30)), NA,           Cell(Num(3)))>>

OutlierLen == 5

OutlierTables ==
    {MkTable([i \in DOMAIN s |-> OutlierRows[s[i]]], CoreCols) :
        s \in {t \in UNION {[1 .. n -> DOMAIN OutlierRows] : n \in 4 .. OutlierLen} :
                  Range(t) = DOMAIN OutlierRows}}

OutlierInputs ==
    [df : OutlierTables, target_col : {"diabetes"},
     handle_outliers_method : {"cap", "remove", "none"},
     use_feature_engineering : {TRUE}, seed : {0}]

-----------------------------------------------------------------------------
(* enhanced_preprocessing, step by step *)

NoScaler == [feature_names_in |-> <<>>, stats |-> <<>>]
PipelineMaxCategories == 15

CapIdle == series = EmptyTable /\ passes = <<>>
FeIdle == fe_in = EmptyTable /\ fe_out = EmptyTable
SvcIdle == svc = <<>> /\ request = <<>> /\ response = <<>> /\ log = <<>>
IoIdle == file = <<>> /\ writer = "idle" /\ observed = <<>>
HcIdle == hc_in = <<>> /\ hc_out = <<>>
SelIdle == sel_in = <<>> /\ sel_out = <<>>
MainIdle == main_in = <<>> /\ called = <<>> /\ reports = <<>> /\ exit_code = -1
ImpIdle == imp_in = <<>> /\ imp_out = <<>>
AuxIdle == HcIdle /\ SelIdle /\ MainIdle /\ ImpIdle

PipeStart(inp) ==
    /\ input = inp
    /\ df_clean = EmptyTable
    /\ df_ml = EmptyTable
    /\ numeric_cols = <<>>
    /\ categorical_cols = <<>>
    /\ imputation_info = <<>>
    /\ outlier_info = <<>>
    /\ new_features = <<>>
    /\ encoding_info = <<>>
    /\ categorical_for_encoding = <<>>
    /\ final_numeric_cols = <<>>
    /\ scaler = NoScaler
    /\ feature_selection_applied = FALSE
    /\ feature_scores = {}
    /\ outdir = <<>>
    /\ error = ""

PipeIdle == PipeStart([df |-> EmptyTable, target_col |-> "",
                       handle_outliers_method |-> "none",
                       use_feature_engineering |-> FALSE, seed |-> 0])

Init ==
    /\ pc = "clean"
    /\ \E inp \in SmallInputs \cup WideInputs \cup YearInputs \cup OutlierInputs :
           PipeStart(inp)
    /\ CapIdle /\ FeIdle /\ SvcIdle /\ IoIdle /\ AuxIdle

\* open(path, 'w') and write: the file holds content
\* a write that leaves the directory as it was
WriteFileLost(dir, name, content) == dir

\* to_csv / joblib.dump of content to outdir/name
WriteFile(dir, name, content) == (name :> content) @@ dir

\* Step 1: df_clean = df.copy().drop_duplicates().reset_index(drop=True)
Clean ==
    /\ pc = "clean"
    /\ df_clean' = DropDuplicates(input.df)
    /\ pc' = "classify"
    /\ UNCHANGED <<input, df_ml, numeric_cols, categorical_cols, imputation_info,
                   outlier_info, new_features, encoding_info, categorical_for_encoding,
                   final_numeric_cols, scaler, feature_selection_applied,
                   feature_scores, outdir, error, nonpipe_vars>>

\* Step 2: column types, year and gestational_history made categorical
ClassifyColumns ==
    /\ pc = "classify"
    /\ LET r == Classify(df_clean, input.target_col)
       IN  /\ df_clean' = r.df
           /\ numeric_cols' = r.numeric_cols
           /\ categorical_cols' = r.categorical_cols
    /\ pc' = "impute"
    /\ UNCHANGED <<input, df_ml, imputation_info,
                   outlier_info, new_features, encoding_info, categorical_for_encoding,
                   final_numeric_cols, scaler, feature_selection_applied,
                   feature_scores, outdir, error, nonpipe_vars>>

\* Step 3: imputation and imputation_report.csv.  With no imputed column the
\* report frame has the single column 'index', and naming its three columns
\* raises ValueError (Length mismatch).
Impute ==
    /\ pc = "impute"
    /\ LET r == EnhancedImputation(df_clean, numeric_cols, categorical_cols,
                                   input.target_col)
       IN  /\ df_clean' = r.df
           /\ imputation_info' = r.info
           /\ IF r.info = <<>>
              THEN /\ error' = "ValueError: Length mismatch"
                   /\ pc' = "failed"
                   /\ outdir' = outdir
              ELSE /\ outdir' = WriteFile(outdir, "imputation_report.csv", r.info)
                   /\ pc' = "outliers"
                   /\ error' = error
    /\ UNCHANGED <<input, df_ml, numeric_cols, categorical_cols,
                   outlier_info, new_features, encoding_info, categorical_for_encoding,
                   final_numeric_cols, scaler, feature_selection_applied,
                   feature_scores, nonpipe_vars>>

\* Step 4: outlier handling and outlier_treatment_report.csv
Outliers ==
    /\ pc = "outliers"
    /\ IF numeric_cols # <<>> /\ input.handle_outliers_method # "none"
       THEN LET r == HandleOutliers(df_clean, numeric_cols, input.handle_outliers_method)
            IN  /\ df_clean' = r.df
                /\ outlier_info' = r.info
                /\ outdir' = WriteFile(outdir, "outlier_treatment_report.csv", r.info)
       ELSE UNCHANGED <<df_clean, outlier_info, outdir>>
    /\ pc' = "engineer"
    /\ UNCHANGED <<input, df_ml, numeric_cols, categorical_cols, imputation_info,
                   new_features, encoding_info, categorical_for_encoding,
                   final_numeric_cols, scaler, feature_selection_applied,
                   feature_scores, error, nonpipe_vars>>

\* Step 5: feature engineering; a new feature is categorical when its dtype
\* is 'object', numeric otherwise
Engineer ==
    /\ pc = "engineer"
    /\ IF input.use_feature_engineering
       THEN LET r == FeatureEngineering(df_clean)
                new_categorical ==
                    SelectSeq2(r.new_features,
                               {f \in Range(r.new_features) : r.df.dt[f] = "object"})
                new_numeric ==
                    SelectSeq2(r.new_features,
                               Range(r.new_features) \ Range(new_categorical))
            IN  /\ df_clean' = r.df
                /\ new_features' = r.new_features
                /\ categorical_cols' = categorical_cols \o new_categorical
                /\ numeric_cols' = numeric_cols \o new_numeric
       ELSE UNCHANGED <<df_clean, new_features, categorical_cols, numeric_cols>>
    /\ pc' = "high_cardinality"
    /\ UNCHANGED <<input, df_ml, imputation_info, outlier_info,
                   encoding_info, categorical_for_encoding,
                   final_numeric_cols, scaler, feature_selection_applied,
                   feature_scores, outdir, error, nonpipe_vars>>

\* Step 6: high-cardinality categorical columns and encoding_report.csv
HighCardinality ==
    /\ pc = "high_cardinality"
    /\ LET r == HandleHighCardinality(df_clean, categorical_cols, input.target_col,
                                      PipelineMaxCategories)
       IN  IF r.err # ""
           THEN /\ error' = r.err
                /\ pc' = "failed"
                /\ UNCHANGED <<df_clean, encoding_info, outdir>>
           ELSE /\ df_clean' = r.df
                /\ encoding_info' = r.info
                /\ outdir' = IF r.info # <<>>
                             THEN WriteFile(outdir, "encoding_report.csv", r.info)
                             ELSE outdir
                /\ pc' = "save_readable"
                /\ error' = error
    /\ UNCHANGED <<input, df_ml, numeric_cols, categorical_cols, imputation_info,
                   outlier_info, new_features, categorical_for_encoding,
                   final_numeric_cols, scaler, feature_selection_applied,
                   feature_scores, nonpipe_vars>>

\* The readable table written in place of step 6, before the
\* high-cardinality stage has run.
SaveReadableEarly ==
    /\ pc = "high_cardinality"
    /\ outdir' = WriteFile(outdir, "diabetes_enhanced_readable.csv", df_clean)
    /\ pc' = "encode"
    /\ UNCHANGED <<input, df_clean, df_ml, numeric_cols, categorical_cols,
                   imputation_info, outlier_info, new_features, encoding_info,
                   categorical_for_encoding, final_numeric_cols, scaler,
                   feature_selection_applied, feature_scores, error, nonpipe_vars>>

\* Step 7: diabetes_enhanced_readable.csv
SaveReadable ==
    /\ pc = "save_readable"
    /\ outdir' = WriteFile(outdir, "diabetes_enhanced_readable.csv", df_clean)
    /\ pc' = "encode"
    /\ UNCHANGED <<input, df_clean, df_ml, numeric_cols, categorical_cols,
                   imputation_info, outlier_info, new_features, encoding_info,
                   categorical_for_encoding, final_numeric_cols, scaler,
                   feature_selection_applied, feature_scores, error, nonpipe_vars>>

\* Step 8: one-hot encoding and the final numeric column list
Encode ==
    /\ pc = "encode"
    /\ LET cfe == SelectSeq2(categorical_cols,
                      {c \in Range(categorical_cols) :
                          ~HasCol(df_clean, TargetEncodedName(c))})
           ml == IF cfe # <<>> THEN GetDummies(df_clean, cfe) ELSE df_clean
           target_encoded_cols ==
               SelectSeq2(ml.cols, {TargetEncodedName(c) : c \in Range(categorical_cols)})
           truly_numeric ==
               SelectSeq2(numeric_cols,
                          {c \in Range(numeric_cols) :
                              HasCol(ml, c) /\ IsNumericDtype(ml.dt[c])})
       IN  /\ categorical_for_encoding' = cfe
           /\ df_ml' = ml
           /\ final_numeric_cols' = truly_numeric \o target_encoded_cols
    /\ pc' = "scale"
    /\ UNCHANGED <<input, df_clean, numeric_cols, categorical_cols,
                   imputation_info, outlier_info, new_features, encoding_info,
                   scaler, feature_selection_applied, feature_scores, outdir,
                   error, nonpipe_vars>>

\* Step 9: scaler = StandardScaler();
\* df_ml[final_numeric_cols] = scaler.fit_transform(df_ml[final_numeric_cols])
Scale ==
    /\ pc = "scale"
    /\ IF final_numeric_cols # <<>>
       THEN LET sc == FitScaler(df_ml, final_numeric_cols, FALSE)
            IN  /\ scaler' = sc
                /\ df_ml' = ScaleColumns(df_ml, final_numeric_cols, sc)
       ELSE UNCHANGED <<scaler, df_ml>>
    /\ pc' = "select"
    /\ UNCHANGED <<input, df_clean, numeric_cols, categorical_cols,
                   imputation_info, outlier_info, new_features, encoding_info,
                   categorical_for_encoding, final_numeric_cols,
                   feature_selection_applied, feature_scores, outdir, error,
                   nonpipe_vars>>

\* Step 10: feature selection and feature_selection_report.csv
Select ==
    /\ pc = "select"
    /\ LET r == FeatureSelection(df_ml, input.target_col, input.seed)
       IN  /\ feature_selection_applied' = r.applied
           /\ IF r.err # ""
              THEN /\ error' = r.err
                   /\ pc' = "failed"
                   /\ UNCHANGED <<df_ml, feature_scores, outdir>>
              ELSE /\ df_ml' = r.df
                   /\ feature_scores' = r.report
                   /\ outdir' = IF r.applied
                                THEN WriteFile(outdir, "feature_selection_report.csv",
                                               r.report)
                                ELSE outdir
                   /\ pc' = "save_scaler"
                   /\ error' = error
    /\ UNCHANGED <<input, df_clean, numeric_cols, categorical_cols,
                   imputation_info, outlier_info, new_features, encoding_info,
                   categorical_for_encoding, final_numeric_cols, scaler, nonpipe_vars>>

\* The scaler that feature_scaler.pkl receives: a new StandardScaler fit on
\* df_ml[final_numeric_in_ml], the columns as they are in df_ml at this point.
FinalScaler(ml, final_numeric_in_ml) == FitScaler(ml, final_numeric_in_ml, TRUE)

\* "Step 10" of the log: joblib.dump(final_scaler, feature_scaler.pkl)
SaveScaler ==
    /\ pc = "save_scaler"
    /\ LET final_numeric_in_ml ==
               SelectSeq2(df_ml.cols,
                          Range(final_numeric_cols) \ {input.target_col})
       IN  outdir' = IF scaler # NoScaler /\ final_numeric_in_ml # <<>>
                     THEN WriteFile(outdir, "feature_scaler.pkl",
                                    FinalScaler(df_ml, final_numeric_in_ml))
                     ELSE outdir
    /\ pc' = "save_ml"
    /\ UNCHANGED <<input, df_clean, df_ml, numeric_cols, categorical_cols,
                   imputation_info, outlier_info, new_features, encoding_info,
                   categorical_for_encoding, final_numeric_cols, scaler,
                   feature_selection_applied, feature_scores, error, nonpipe_vars>>

\* Step 11: diabetes_enhanced_ml_ready.csv
SaveMl ==
    /\ pc = "save_ml"
    /\ outdir' = WriteFile(outdir, "diabetes_enhanced_ml_ready.csv", df_ml)
    /\ pc' = "summary"
    /\ UNCHANGED <<input, df_clean, df_ml, numeric_cols, categorical_cols,
                   imputation_info, outlier_info, new_features, encoding_info,
                   categorical_for_encoding, final_numeric_cols, scaler,
                   feature_selection_applied, feature_scores, error, nonpipe_vars>>

\* Step 12: processing_summary
ProcessingSummary ==
    [original_rows |-> input.df.n,
     original_columns |-> Len(input.df.cols),
     final_rows |-> df_ml.n,
     final_columns |-> Len(df_ml.cols),
     duplicates_removed |-> input.df.n - df_clean.n,
     numeric_features |->
         Cardinality({i \in DOMAIN final_numeric_cols : HasCol(df_ml, final_numeric_cols[i])}),
     categorical_features_encoded |-> Len(categorical_for_encoding),
     new_features_created |->
         IF input.use_feature_engineering THEN Len(new_features) ELSE 0,
     outlier_method |-> input.handle_outliers_method,
     feature_selection_applied |->
         IF Len(df_ml.cols) # Len(df_clean.cols) THEN "Yes" ELSE "No",
     total_final_features |->
         Len(df_ml.cols) - (IF HasCol(df_ml, input.target_col) THEN 1 ELSE 0)]

Summary ==
    /\ pc = "summary"
    /\ outdir' = WriteFile(outdir, "processing_summary.csv", ProcessingSummary)
    /\ pc' = "done"
    /\ UNCHANGED <<input, df_clean, df_ml, numeric_cols, categorical_cols,
                   imputation_info, outlier_info, new_features, encoding_info,
                   categorical_for_encoding, final_numeric_cols, scaler,
                   feature_selection_applied, feature_scores, error, nonpipe_vars>>

Next ==
    \/ Clean
    \/ ClassifyColumns
    \/ Impute
    \/ Outliers
    \/ Engineer
    \/ HighCardinality
    \/ SaveReadable
    \/ Encode
    \/ Scale
    \/ Select
    \/ SaveScaler
    \/ SaveMl
    \/ Summary

Spec == Init /\ [][Next]_vars

-----------------------------------------------------------------------------
(* SpecCap: handle_outliers in cap mode applied twice to one numeric column *)

CapLen == 5
CapMax == 3
\* column values: whole numbers 0 .. CapMax and one far value
CapVals == {v * Ticks : v \in 0 .. CapMax} \cup {100 * Ticks}

CapTable(s) == PutCol([EmptyTable EXCEPT !.n = Len(s)], "x", "float", s)

InitCap ==
    /\ pc = "cap"
    /\ \E s \in [1 .. CapLen -> {Cell(v) : v \in CapVals} \cup {NA}] :
           series = CapTable(s)
    /\ passes = <<>>
    /\ PipeIdle /\ FeIdle /\ SvcIdle /\ IoIdle /\ AuxIdle

\* df, info = handle_outliers(df, ['x'], 'cap'), run on the previous output
CapPass ==
    /\ pc = "cap"
    /\ Len(passes) < 2
    /\ LET r == HandleOutliers(series, <<"x">>, "cap")
       IN  /\ passes' = Append(passes, [inp    |-> series.data["x"],
                                        bounds |-> IqrBounds(series.data["x"]),
                                        out    |-> r.df.data["x"],
                                        info   |-> r.info["x"]])
           /\ series' = r.df
    /\ pc' = IF Len(passes) = 1 THEN "cap_done" ELSE "cap"
    /\ UNCHANGED <<pipe_vars, fe_vars, svc_vars, io_vars, aux_vars>>

NextCap == CapPass

SpecCap == InitCap /\ [][NextCap]_vars

-----------------------------------------------------------------------------
(* DiabetesPredictionService (services/app/services/prediction.py) *)

NumericFeatures == <<"age", "bmi", "hbA1c_level", "blood_glucose_level">>

\* HardcodedScaler(): feature_names_in_, with mean_ and scale_ by position
HardcodedScaler == [feature_names_in |-> NumericFeatures, n_features_in |-> 4]

\* Feature schemas a *_model_features.json may hold.
TrainedSchema ==
    <<"age", "bmi", "hbA1c_level", "blood_glucose_level", "gender_Female",
      "gender_Male", "bmi_risk_level", "age_diabetes_risk",
      "gestational_history_1.0">>

Schemas ==
    {TrainedSchema,
     \* without bmi
     <<"age", "hbA1c_level", "blood_glucose_level", "gender_Female",
       "gender_Male", "bmi_risk_level", "age_diabetes_risk">>,
     \* numeric features in another order
     <<"bmi", "age", "blood_glucose_level", "hbA1c_level", "gender_Female",
       "gender_Male">>,
     \* with columns preprocess_input does not build
     <<"age", "bmi", "hbA1c_level", "blood_glucose_level", "gender_Male",
       "gestational_diabetes", "physical_activity_high">>}

\* user_input of a request; a missing key is NA. malformed: a numeric field
\* holds text that float() rejects.
Requests ==
    [gender : {Cell("Female"), Cell("Male"), Cell("Other"), NA},
     age : {Cell(Num(30)), Cell(Num(35)), Cell(Num(47)), Cell(Num(50))},
     height : {Cell(Num(100))},
     weight : {Cell(Num(25)), Cell(Num(27))},
     hbA1c : {NA, Cell(Num(6))},
     bloodGlucose : {NA},
     gestationalHistory : {Cell("yes"), NA},
     malformed : BOOLEAN]

\* dict.get(key, default)
Get(c, default) == IF IsNull(c) THEN default ELSE V(c)

\* preprocess_input(user_input, gender): [features, has_clinical_data, err].
\* 5.7 is taken to the tick below it. Of the flags that do not depend on the
\* request (smoking_history_* of a request without 'smoking', location_*,
\* alcohol_intake_none, region_income_high, year_*) the dict keeps
\* smoking_history_never, smoking_history_current and year_*;
\* age_group_MiddleAged is the key 'age_group_Middle-aged'.
PreprocessInput(user_input, gender) ==
    LET age == Get(user_input.age, Num(35))
        height == Get(user_input.height, Num(170))
        weight == Get(user_input.weight, Num(70))
        \* weight / ((height / 100) ** 2), for a height in whole centimetres
        cm == height \div Ticks
        bmi == (weight * 100 * 100) \div (cm * cm)
        has_clinical_data == NotNull(user_input.hbA1c) \/ NotNull(user_input.bloodGlucose)
        hba1c_level == Get(user_input.hbA1c, (57 * Ticks) \div 10)
        glucose_level == Get(user_input.bloodGlucose, Num(95))
        smoking_history == "never"
        bmi_risk == IF Num(25) <= bmi /\ bmi < Num(30) THEN "overweight"
                    ELSE IF Num(30) <= bmi /\ bmi < Num(35) THEN "obese_1"
                    ELSE IF bmi >= Num(35) THEN "obese_2"
                    ELSE IF bmi < Num(18) + Half THEN "underweight"
                    ELSE "normal"
        bmi_risk_categories == <<"normal", "underweight", "overweight", "obese_1", "obese_2">>
        age_risk == IF age >= Num(65) THEN "very_high_risk"
                    ELSE IF age >= Num(50) THEN "high_risk"
                    ELSE IF age >= Num(35) THEN "moderate_risk"
                    ELSE "low_risk"
        age_risk_categories == <<"low_risk", "moderate_risk", "high_risk", "very_high_risk">>
        index(seq, x) == (CHOOSE i \in DOMAIN seq : seq[i] = x) - 1
        base ==
            [age |-> Cell(age), bmi |-> Cell(bmi),
             hbA1c_level |-> Cell(hba1c_level),
             blood_glucose_level |-> Cell(glucose_level),
             gender_Female |-> Cell(gender = "female"),
             gender_Male |-> Cell(gender = "male"),
             smoking_history_never |-> Cell(smoking_history = "never"),
             smoking_history_current |-> Cell(smoking_history = "current"),
             bmi_category_Normal |-> Cell(Num(18) + Half <= bmi /\ bmi < Num(25)),
             bmi_category_Obese |-> Cell(bmi >= Num(30)),
             bmi_category_Overweight |-> Cell(Num(25) <= bmi /\ bmi < Num(30)),
             bmi_category_Underweight |-> Cell(bmi < Num(18) + Half),
             age_group_Adult |-> Cell(Num(18) <= age /\ age < Num(40)),
             age_group_Child |-> Cell(age < Num(18)),
             age_group_MiddleAged |-> Cell(Num(40) <= age /\ age < Num(60)),
             age_group_Senior |-> Cell(age >= Num(60)),
             year_2019 |-> Cell(FALSE), year_2022 |-> Cell(TRUE),
             bmi_risk_level |-> Cell(index(bmi_risk_categories, bmi_risk)),
             age_diabetes_risk |-> Cell(index(age_risk_categories, age_risk))]
        gestational == Get(user_input.gestationalHistory, "no") \in {"yes", "true", "1"}
        female ==
            ("gestational_history_0.0" :> Cell(~gestational))
            @@ ("gestational_history_1.0" :> Cell(gestational))
            @@ ("gestational_history_No" :> Cell(FALSE))
            @@ ("gestational_history_Not Applicable" :> Cell(FALSE))
    IN  IF user_input.malformed
        THEN [features |-> <<>>, has_clinical_data |-> FALSE,
              err |-> "Invalid input data: could not convert string to float"]
        ELSE [features |-> IF gender = "female" THEN female @@ base ELSE base,
              has_clinical_data |-> has_clinical_data, err |-> ""]


\* 'gestational' in col.lower(), over the column names of the schemas
ContainsGestational(col) ==
    col \in {"gestational_history_0.0", "gestational_history_1.0",
             "gestational_history_No", "gestational_history_Not Applicable",
             "gestational_diabetes"}

\* str.title() of the gender values
Title(x) ==
    CASE x = "female" -> "Female" [] x = "male" -> "Male"
      [] x = "other" -> "Other" [] OTHER -> x

\* feature_df = pd.DataFrame([features]), the columns of feature_schema it
\* lacks added with their defaults, then feature_df[feature_schema]
BuildFrame(features, feature_schema, gender) ==
    [cols |-> feature_schema,
     row  |-> [col \in Range(feature_schema) |->
                  IF col \in DOMAIN features THEN features[col]
                  ELSE IF ContainsGestational(col) THEN Cell(FALSE)
                  ELSE IF col \in {"gender_Female", "gender_Male"}
                       THEN Cell(col = "gender_" \o Title(gender))
                  ELSE Cell(0)]]

\* feature_df[numeric_features] = scaler.transform(feature_df[numeric_features]):
\* the j-th column of numeric_features by the j-th mean_ and scale_ of the
\* scaler; [x, by] is (x - mean_) / scale_ with the pair of scaler feature by.
ScaleFrame(frame, sc) ==
    [frame EXCEPT !.row =
        [col \in DOMAIN frame.row |->
            IF col \in Range(NumericFeatures)
            THEN LET j == CHOOSE i \in DOMAIN NumericFeatures : NumericFeatures[i] = col
                 IN  Cell([x |-> V(frame.row[col]), by |-> sc.feature_names_in[j]])
            ELSE frame.row[col]]]

CalculatorName(has_clinical_data) ==
    "Risk Calculator ("
    \o (IF has_clinical_data THEN "Clinical + Lifestyle" ELSE "Lifestyle Only") \o ")"

\* predict_diabetes_risk(user_input): [response, log]. predict_ok: whether
\* model_to_use.predict_proba accepts the frame. The response carries error
\* ("" for a dict without that key), model_used, confidence,
\* has_clinical_data, gender and, as model_input, the frame the model was
\* given (NA when the risk came from the calculator); the risk numbers are
\* left out.
PredictDiabetesRisk(s, user_input, predict_ok) ==
    LET gender == Lower(Get(user_input.gender, "male"))
        pre == PreprocessInput(user_input, gender)
        use_women == gender = "female" /\ s.women_model
        use_men == gender = "male" /\ s.men_model
        feature_schema == IF use_women THEN s.women_features ELSE s.men_features
        model_name == IF use_women THEN "Women-Specific XGBoost"
                      ELSE "Men-Specific XGBoost"
        frame == BuildFrame(pre.features, V(feature_schema), gender)
        scaled == IF NotNull(s.feature_scaler)
                  THEN ScaleFrame(frame, V(s.feature_scaler)) ELSE frame
        ml_error ==
            IF IsNull(feature_schema) THEN "'NoneType' object is not iterable"
            ELSE IF /\ NotNull(s.feature_scaler)
                    /\ ~(Range(NumericFeatures) \subseteq Range(V(feature_schema)))
                 THEN "KeyError: not in index"
            ELSE IF ~predict_ok THEN "feature_names mismatch"
            ELSE ""
        calculator == [error |-> "",
                       model_used |-> CalculatorName(pre.has_clinical_data),
                       confidence |-> "moderate",
                       has_clinical_data |-> pre.has_clinical_data,
                       gender |-> gender, model_input |-> NA]
    IN  IF pre.err # ""
        THEN [response |-> [error |-> "Prediction failed: " \o pre.err,
                            model_used |-> "Error", confidence |-> "none",
                            has_clinical_data |-> FALSE, gender |-> "",
                            model_input |-> NA],
              log |-> <<"Prediction error: " \o pre.err>>]
        ELSE IF ~(use_women \/ use_men)
        THEN [response |-> calculator,
              log |-> <<"No model available, using fallback calculator">>]
        ELSE IF ml_error # ""
        THEN [response |-> calculator,
              log |-> <<"ML model prediction failed: " \o ml_error
                        \o ", falling back to calculator">>]
        ELSE [response |-> [error |-> "",
                            model_used |-> model_name \o " Model (Clinical + Lifestyle)",
                            confidence |-> "high",
                            has_clinical_data |-> pre.has_clinical_data,
                            gender |-> gender, model_input |-> Cell(scaled)],
              log |-> IF IsNull(s.feature_scaler)
                      THEN <<"Feature scaler not available - using raw numeric values">>
                      ELSE <<>>]

\* __init__ before load_models()
NewService == [women_model |-> FALSE, men_model |-> FALSE,
               women_features |-> NA, men_features |-> NA,
               feature_scaler |-> NA]

InitPredict ==
    /\ pc = "svc_new"
    /\ svc = NewService
    /\ request = <<>> /\ response = <<>> /\ log = <<>>
    /\ PipeIdle /\ CapIdle /\ FeIdle /\ IoIdle /\ AuxIdle

\* load_models(): which files exist, and which joblib.load raises, is the
\* environment's; an exception unsets both models and keeps what was read of
\* the feature schemas.
LoadModels ==
    /\ pc = "svc_new"
    /\ \E women_pkl, men_pkl \in BOOLEAN,
          women_json, men_json \in {NA} \cup {Cell(f) : f \in Schemas},
          raises \in {"", "women", "men"} :
          /\ raises = "women" => women_pkl
          /\ raises = "men" => men_pkl
          /\ svc' = [svc EXCEPT
                 !.women_model = women_pkl /\ raises = "",
                 !.women_features = IF women_pkl /\ raises # "women"
                                    THEN women_json ELSE NA,
                 !.men_model = men_pkl /\ raises = "",
                 !.men_features = IF men_pkl /\ raises = ""
                                  THEN men_json ELSE NA]
    /\ pc' = "svc_models"
    /\ UNCHANGED <<request, response, log, pipe_vars, cap_vars, fe_vars, io_vars, aux_vars>>

\* load_scaler(): the hardcoded scaler
LoadScaler ==
    /\ pc = "svc_models"
    /\ svc' = [svc EXCEPT !.feature_scaler = Cell(HardcodedScaler)]
    /\ pc' = "svc_ready"
    /\ UNCHANGED <<request, response, log, pipe_vars, cap_vars, fe_vars, io_vars, aux_vars>>

\* response = predict_diabetes_risk(user_input)
Predict ==
    /\ pc = "svc_ready"
    /\ \E user_input \in Requests, predict_ok \in BOOLEAN :
          LET r == PredictDiabetesRisk(svc, user_input, predict_ok)
          IN  /\ request' = user_input
              /\ response' = r.response
              /\ log' = r.log
    /\ pc' = "svc_answered"
    /\ UNCHANGED <<svc, pipe_vars, cap_vars, fe_vars, io_vars, aux_vars>>

NextPredict == LoadModels \/ LoadScaler \/ Predict

SpecPredict == InitPredict /\ [][NextPredict]_vars

-----------------------------------------------------------------------------
(* joblib.dump(final_scaler, scaler_path) and a concurrent reader of the path *)

ScalerChunks == 3
MaxReads == 3

\* the pickle of final_scaler as the writes that put it on disk, and the
\* complete file an earlier run left at the path
NewBytes == [i \in 1 .. ScalerChunks |-> i]
OldBytes == [i \in 1 .. ScalerChunks |-> 0 - i]

InitIO ==
    /\ pc = "io"
    /\ file \in {NA, Cell(OldBytes)}
    /\ writer = "start"
    /\ observed = <<>>
    /\ PipeIdle /\ CapIdle /\ FeIdle /\ SvcIdle /\ AuxIdle

\* joblib.dump opens scaler_path itself for writing: open(filename, 'wb')
\* creates the file, or empties the one that is there
OpenForWrite ==
    /\ pc = "io" /\ writer = "start"
    /\ file' = Cell(<<>>)
    /\ writer' = "open"
    /\ UNCHANGED <<pc, observed, pipe_vars, cap_vars, fe_vars, svc_vars, aux_vars>>

\* the pickler writes the next part of the pickle
WriteChunk ==
    /\ pc = "io" /\ writer = "open"
    /\ Len(V(file)) < ScalerChunks
    /\ file' = Cell(Append(V(file), NewBytes[Len(V(file)) + 1]))
    /\ UNCHANGED <<pc, writer, observed, pipe_vars, cap_vars, fe_vars, svc_vars, aux_vars>>

\* the file is closed when the pickle is complete
CloseFile ==
    /\ pc = "io" /\ writer = "open"
    /\ Len(V(file)) = ScalerChunks
    /\ writer' = "closed"
    /\ UNCHANGED <<pc, file, observed, pipe_vars, cap_vars, fe_vars, svc_vars, aux_vars>>

\* a reader of scaler_path reads what is at the path now
ReadFile ==
    /\ pc = "io"
    /\ Len(observed) < MaxReads
    /\ observed' = Append(observed, file)
    /\ UNCHANGED <<pc, file, writer, pipe_vars, cap_vars, fe_vars, svc_vars, aux_vars>>

NextIO == OpenForWrite \/ WriteChunk \/ CloseFile \/ ReadFile

SpecIO == InitIO /\ [][NextIO]_vars

-----------------------------------------------------------------------------
(* feature_engineering applied to a table of one row with bmi and age,     *)
(* with and without the lifestyle columns                                  *)

BmiVals == {Num(0), Num(10), Num(18), Num(18) + Half, Num(19), Num(25),
            Num(27), Num(30), Num(32), Num(35), Num(40)}
AgeVals == {Num(0), Num(20), Num(35), Num(40), Num(45), Num(50), Num(65), Num(70)}

FeTable(bmi, age) ==
    PutCol(PutCol([EmptyTable EXCEPT !.n = 1], "bmi", "float", <<bmi>>),
           "age", "float", <<age>>)

ActivityVals == {"low", "moderate", "high", "unknown"}
SleepVals == {Num(5), Num(6), Num(7), Num(9), Num(10), Num(11)}

\* a table of one row with bmi and age and, where has_act / has_sleep say so,
\* the columns physical_activity and sleep_hours
LifestyleTable(has_act, act, has_sleep, sleep) ==
    LET t0 == FeTable(Cell(Num(25)), Cell(Num(45)))
        t1 == IF has_act THEN PutCol(t0, "physical_activity", "object", <<act>>) ELSE t0
    IN  IF has_sleep THEN PutCol(t1, "sleep_hours", "float", <<sleep>>) ELSE t1

LifestyleTables ==
    {LifestyleTable(ha, a, hs, sl) :
        ha \in BOOLEAN, a \in {Cell(v) : v \in ActivityVals} \cup {NA},
        hs \in BOOLEAN, sl \in {Cell(v) : v \in SleepVals} \cup {NA}}

InitFE ==
    /\ pc = "fe"
    /\ \/ \E bmi \in {Cell(v) : v \in BmiVals} \cup {NA}, age \in {Cell(v) : v \in AgeVals} :
              fe_in = FeTable(bmi, age)
       \/ fe_in \in LifestyleTables
    /\ fe_out = EmptyTable
    /\ PipeIdle /\ CapIdle /\ SvcIdle /\ IoIdle /\ AuxIdle

\* df_engineered, new_features = feature_engineering(df)
FeCall ==
    /\ pc = "fe"
    /\ fe_out' = FeatureEngineering(fe_in).df
    /\ pc' = "fe_done"
    /\ UNCHANGED <<fe_in, pipe_vars, cap_vars, svc_vars, io_vars, aux_vars>>

NextFE == FeCall

SpecFE == InitFE /\ [][NextFE]_vars

-----------------------------------------------------------------------------
(* handle_high_cardinality_categorical applied to a table with the columns  *)
(* location and smoking_history, with and without a target column          *)

HcRows == 4
HcMaxCat == 2

HcVals == {"rural", "urban", "Other"}
HcCells == {Cell(v) : v \in HcVals} \cup {NA}

\* the second categorical column: three distinct values, or one
HcSecond == {<<Cell("never"), Cell("current"), Cell("No"), Cell("never")>>,
             <<Cell("never"), Cell("never"), Cell("never"), Cell("never")>>}

\* the target column: complete, or with a missing value
HcTargets == {<<Cell(Num(0)), Cell(Num(1)), Cell(Num(1)), Cell(Num(0))>>,
              <<Cell(Num(0)), NA, Cell(Num(1)), Cell(Num(0))>>}

HcPad(s) == [i \in 1 .. HcRows |-> s[((i - 1) % Len(s)) + 1]]

HcTable(loc, second) ==
    PutCol(PutCol([EmptyTable EXCEPT !.n = HcRows], "location", "object", loc),
           "smoking_history", "object", HcPad(second))

HcInputs ==
    {[df |-> HcTable(loc, second), categorical_cols |-> <<"location", "smoking_history">>,
      target_col |-> "", max_categories |-> k] :
        loc \in [1 .. HcRows -> HcCells], second \in HcSecond, k \in 1 .. HcMaxCat}
    \cup
    {[df |-> PutCol(HcTable(loc, second), "diabetes", "int", HcPad(y)),
      categorical_cols |-> <<"location", "smoking_history">>,
      target_col |-> "diabetes", max_categories |-> k] :
        loc \in [1 .. HcRows -> HcCells], second \in HcSecond, y \in HcTargets,
        k \in 1 .. HcMaxCat}

InitHC ==
    /\ pc = "hc"
    /\ hc_in \in HcInputs
    /\ hc_out = <<>>
    /\ PipeIdle /\ CapIdle /\ FeIdle /\ SvcIdle /\ IoIdle /\ SelIdle /\ MainIdle /\ ImpIdle

\* df_processed, encoding_info =
\*     handle_high_cardinality_categorical(df, categorical_cols, target_col, max_categories)
HcCall ==
    /\ pc = "hc"
    /\ hc_out' = HandleHighCardinality(hc_in.df, hc_in.categorical_cols,
                                       hc_in.target_col, hc_in.max_categories)
    /\ pc' = "hc_done"
    /\ UNCHANGED <<hc_in, pipe_vars, cap_vars, fe_vars, svc_vars, io_vars, sel_vars, main_vars, imp_vars>>

NextHC == HcCall

SpecHC == InitHC /\ [][NextHC]_vars

-----------------------------------------------------------------------------
(* Step 10 of enhanced_preprocessing applied to an encoded table of         *)
(* protected numeric columns glucose_<i>, selectable numeric columns x<i>,  *)
(* non-numeric columns site_<i> (the originals of target-encoded columns)   *)
(* and the target                                                           *)

SiteName(i) == "site_" \o ToString(i)

MaxSelWidth == 56

\* [p, s, c]: how many protected, selectable and non-numeric feature columns
SelShapes ==
    {sh \in [p : {0, 2, MaxGlucose}, s : {0, 10, 16, 28, 29, 30, 31}, c : {0, 2, 20}] :
        sh.p + sh.s + sh.c <= MaxSelWidth /\ sh.p + sh.s + sh.c > 0}

\* The encoded table of a shape: two rows; with nan, the first feature
\* column has a missing value in the second row.
SelTable(sh, with_target, nan) ==
    LET names == [i \in 1 .. sh.p |-> GlucoseName(i)]
                 \o [i \in 1 .. sh.s |-> FillName(i)]
                 \o [i \in 1 .. sh.c |-> SiteName(i)]
        cols == IF with_target THEN Append(names, "diabetes") ELSE names
        kind(k) == IF k <= sh.p THEN "float"
                   ELSE IF k <= sh.p + sh.s THEN "int"
                   ELSE IF k <= sh.p + sh.s + sh.c THEN "object"
                   ELSE "int"
        idx(c) == CHOOSE k \in DOMAIN cols : cols[k] = c
        col(k) == IF kind(k) = "object" THEN <<Cell("urban"), Cell("rural")>>
                  ELSE IF k = Len(cols) /\ with_target THEN <<Cell(Num(0)), Cell(Num(1))>>
                  ELSE IF k = sh.p + 1 /\ nan THEN <<Cell(Num(k % 3)), NA>>
                  ELSE <<Cell(Num(k % 3)), Cell(Num((k + 1) % 3))>>
    IN  [n    |-> 2,
         cols |-> cols,
         dt   |-> [c \in Range(cols) |-> kind(idx(c))],
         data |-> [c \in Range(cols) |-> col(idx(c))]]

SelInputs ==
    {[ml |-> SelTable(sh, t # "", nan), target_col |-> t, seed |-> seed] :
        sh \in SelShapes, t \in {"", "diabetes"}, nan \in BOOLEAN, seed \in 0 .. MaxSeed}

InitSel ==
    /\ pc = "sel"
    /\ sel_in \in SelInputs
    /\ sel_out = <<>>
    /\ PipeIdle /\ CapIdle /\ FeIdle /\ SvcIdle /\ IoIdle /\ HcIdle /\ MainIdle /\ ImpIdle

\* Step 10 on df_ml = sel_in.ml
SelCall ==
    /\ pc = "sel"
    /\ sel_out' = FeatureSelection(sel_in.ml, sel_in.target_col, sel_in.seed)
    /\ pc' = "sel_done"
    /\ UNCHANGED <<sel_in, pipe_vars, cap_vars, fe_vars, svc_vars, io_vars, hc_vars, main_vars, imp_vars>>

NextSel == SelCall

SpecSel == InitSel /\ [][NextSel]_vars

-----------------------------------------------------------------------------
(* main: load the dataset, comprehensive_eda, enhanced_preprocessing *)

\* guess_target(df)
CommonTargets == <<"Outcome", "outcome", "target", "Target", "label", "Label",
                   "class", "Class", "diabetes", "Diabetes", "has_diabetes",
                   "diabetic", "Diabetic">>
GuessTarget(df) ==
    LET hits == {i \in DOMAIN CommonTargets : HasCol(df, CommonTargets[i])}
    IN  IF hits = {} THEN ""
        ELSE CommonTargets[CHOOSE i \in hits : \A j \in hits : i <= j]

\* comprehensive_eda(df, reports_dir, target_col): [files, err], the files in
\* the reports directory when it returns or raises.  The percentages of
\* section 2 divide by len(df); the outlier percentage of section 8 divides by
\* the number of values of the column.
ComprehensiveEda(df, target_col) ==
    LET eda_numeric == NumericColumns(df, target_col)
        eda_categorical == ObjectColumns(df, target_col)
        has_target == target_col # "" /\ HasCol(df, target_col)
        upto5 ==
            {"01_enhanced_dtypes.csv", "02_enhanced_missing_values.csv"}
            \cup (IF eda_numeric # <<>> THEN {"03_enhanced_numeric_analysis.csv"} ELSE {})
            \cup (IF eda_categorical # <<>> THEN {"04_categorical_analysis.csv"} ELSE {})
            \cup (IF has_target THEN {"05_target_distribution.csv"} ELSE {})
        rest ==
            {"06_outlier_analysis.csv"}
            \cup (IF Len(eda_numeric) > 1
                  THEN {"07_correlation_matrix.csv", "correlation_heatmap.png"} ELSE {})
            \cup {"visualizations/numeric_" \o c : c \in Range(eda_numeric)}
            \cup {"visualizations/categorical_" \o c : c \in Range(eda_categorical)}
            \cup (IF has_target
                  THEN {"visualizations/target_analysis/target_vs_" \o c :
                            c \in Range(eda_numeric)}
                  ELSE {})
    IN  IF df.n = 0 /\ df.cols # <<>>
        THEN [files |-> {}, err |-> "ZeroDivisionError: division by zero"]
        ELSE IF \E c \in Range(eda_numeric) : DropNa(df.data[c]) = <<>>
        THEN [files |-> upto5, err |-> "ZeroDivisionError: division by zero"]
        ELSE [files |-> upto5 \cup rest, err |-> ""]

\* The file at --input: missing, unreadable, empty (no bytes), or a CSV with a
\* header row and the rows of a table (none for a header-only file).
MainRows == 2

\* pd.read_csv of a header row alone: the columns, no rows, dtype object
HeaderOnly ==
    [MkTable(<<>>, CoreCols) EXCEPT !.dt = [c \in Range(CoreCols) |-> "object"]]

MainFiles ==
    {[kind |-> k, df |-> EmptyTable] : k \in {"missing", "unreadable", "empty"}}
    \cup {[kind |-> "csv", df |-> HeaderOnly]}
    \cup {[kind |-> "csv", df |-> MkTable(rows, CoreCols)] :
             rows \in UNION {[1 .. n -> RowPool] : n \in 1 .. MainRows}}

MainInputs ==
    [file : MainFiles, outliers : {"cap", "remove", "none"},
     no_feature_engineering : BOOLEAN]

InitMain ==
    /\ pc = "main_load"
    /\ main_in \in MainInputs
    /\ called = <<>>
    /\ reports = <<>>
    /\ exit_code = -1
    /\ PipeIdle /\ CapIdle /\ FeIdle /\ SvcIdle /\ IoIdle /\ HcIdle /\ SelIdle /\ ImpIdle

\* df = pd.read_csv(args.input): raises for a missing, unreadable or empty file
LoadDataset ==
    /\ pc = "main_load"
    /\ called' = Append(called, "read_csv")
    /\ IF main_in.file.kind = "csv"
       THEN pc' = "main_eda" /\ exit_code' = exit_code
       ELSE pc' = "main_exit" /\ exit_code' = 1
    /\ UNCHANGED <<main_in, reports, pipe_vars, cap_vars, fe_vars, svc_vars, io_vars,
                   hc_vars, sel_vars, imp_vars>>

\* basic_info = comprehensive_eda(df, reports_dir=args.reports, target_col=target_col)
RunEda ==
    /\ pc = "main_eda"
    /\ called' = Append(called, "comprehensive_eda")
    /\ LET r == ComprehensiveEda(main_in.file.df, GuessTarget(main_in.file.df))
       IN  /\ reports' = Cell(r.files)
           /\ IF r.err = ""
              THEN pc' = "main_prep" /\ exit_code' = exit_code
              ELSE pc' = "main_exit" /\ exit_code' = 1
    /\ UNCHANGED <<main_in, pipe_vars, cap_vars, fe_vars, svc_vars, io_vars,
                   hc_vars, sel_vars, imp_vars>>

\* enhanced_preprocessing(df, outdir, target_col, handle_outliers_method,
\* use_feature_engineering) is entered
RunPreprocessing ==
    /\ pc = "main_prep"
    /\ called' = Append(called, "enhanced_preprocessing")
    /\ pc' = "clean"
    /\ input' = [df |-> main_in.file.df,
                 target_col |-> GuessTarget(main_in.file.df),
                 handle_outliers_method |-> main_in.outliers,
                 use_feature_engineering |-> ~main_in.no_feature_engineering,
                 seed |-> 0]
    /\ UNCHANGED <<df_clean, df_ml, numeric_cols, categorical_cols, imputation_info,
                   outlier_info, new_features, encoding_info,
                   categorical_for_encoding, final_numeric_cols, scaler,
                   feature_selection_applied, feature_scores, outdir, error>>
    /\ UNCHANGED <<main_in, reports, exit_code, cap_vars, fe_vars, svc_vars, io_vars,
                   hc_vars, sel_vars, imp_vars>>

\* main returns, or the exception of enhanced_preprocessing ends the process
MainExit ==
    /\ pc \in {"done", "failed"}
    /\ called # <<>>
    /\ exit_code' = IF pc = "done" THEN 0 ELSE 1
    /\ pc' = "main_exit"
    /\ UNCHANGED <<main_in, called, reports, pipe_vars, cap_vars, fe_vars, svc_vars,
                   io_vars, hc_vars, sel_vars, imp_vars>>

NextMain ==
    \/ LoadDataset
    \/ RunEda
    \/ RunPreprocessing
    \/ Next
    \/ MainExit

SpecMain == InitMain /\ [][NextMain]_vars

-----------------------------------------------------------------------------
(* enhanced_imputation applied to a table with the columns bmi, age,        *)
(* smoking_history and diabetes                                            *)

ImpRows == 3

ImpBmi == {Cell(Num(20)), Cell(Num(30)), NA}
ImpTarget == {Cell(Num(0)), Cell(Num(1)), NA}
\* age: with and without a missing value
ImpAges == {<<NA, Cell(Num(40)), Cell(Num(50))>>,
            <<Cell(Num(40)), Cell(Num(40)), Cell(Num(50))>>}
ImpSmoking == {<<Cell("never"), NA, Cell("never")>>,
               <<Cell("never"), Cell("current"), Cell("never")>>}

ImpPad(s) == [i \in 1 .. ImpRows |-> s[((i - 1) % Len(s)) + 1]]

ImpTable(bmi, age, smoking, y) ==
    PutCol(PutCol(PutCol(PutCol([EmptyTable EXCEPT !.n = ImpRows],
        "bmi", "float", bmi), "age", "float", ImpPad(age)),
        "smoking_history", "object", ImpPad(smoking)), "diabetes", "float", y)

\* target_col: none, the column diabetes, or a name the table does not have
ImpInputs ==
    {[df |-> ImpTable(bmi, age, smoking, y),
      numeric_cols |-> <<"bmi", "age">>,
      categorical_cols |-> <<"smoking_history">>,
      target_col |-> t] :
        bmi \in [1 .. ImpRows -> ImpBmi], age \in ImpAges, smoking \in ImpSmoking,
        y \in [1 .. ImpRows -> ImpTarget], t \in {"", "diabetes", "outcome"}}

InitImp ==
    /\ pc = "imp"
    /\ imp_in \in ImpInputs
    /\ imp_out = <<>>
    /\ PipeIdle /\ CapIdle /\ FeIdle /\ SvcIdle /\ IoIdle /\ HcIdle /\ SelIdle /\ MainIdle

\* df_imputed, imputation_info =
\*     enhanced_imputation(df, numeric_cols, categorical_cols, target_col)
ImpCall ==
    /\ pc = "imp"
    /\ imp_out' = EnhancedImputation(imp_in.df, imp_in.numeric_cols,
                                     imp_in.categorical_cols, imp_in.target_col)
    /\ pc' = "imp_done"
    /\ UNCHANGED <<imp_in, pipe_vars, cap_vars, fe_vars, svc_vars, io_vars,
                   hc_vars, sel_vars, main_vars>>

NextImp == ImpCall

SpecImp == InitImp /\ [][NextImp]_vars

-----------------------------------------------------------------------------
(* Claims *)

\* The table enhanced_imputation receives: de-duplicated and classified.
BeforeImputation == Classify(DropDuplicates(input.df), input.target_col).df

FeatureColumns == Range(numeric_cols) \cup Range(categorical_cols)

\* C1: after enhanced_imputation, as enhanced_preprocessing calls it, every
\* feature column (numeric or categorical) has no missing value, and the
\* target column has as many missing values as before the stage.
C1_ImputationLeavesNoMissing ==
    pc = "outliers" =>
        /\ \A c \in FeatureColumns : NullCount(df_clean.data[c]) = 0
        /\ HasCol(df_clean, input.target_col) =>
               NullCount(df_clean.data[input.target_col])
                   = NullCount(BeforeImputation.data[input.target_col])

C3_CapIdempotent ==
    Len(passes) = 2 =>
        /\ passes[2].bounds = passes[1].bounds
        /\ passes[2].out = passes[2].inp
        /\ passes[2].info.outlier_count = 0

\* the first pass left both quartiles of the column where they were
QuartilesKept ==
    /\ Quantile(passes[1].out, 1) = Quantile(passes[1].inp, 1)
    /\ Quantile(passes[1].out, 3) = Quantile(passes[1].inp, 3)

\* C3: outlier capping is idempotent for a column whose quartiles the first
\* pass leaves unchanged: the second cap pass then computes the same lower and
\* upper bounds, changes no value and finds no outlier.
C3_CapIdempotentWhenQuartilesKept ==
    (Len(passes) = 2 /\ QuartilesKept) =>
        /\ passes[2].bounds = passes[1].bounds
        /\ passes[2].out = passes[2].inp
        /\ passes[2].info.outlier_count = 0

\* a first pass that capped something and kept the quartiles, then a second
C3_Witness ==
    /\ Len(passes) = 2
    /\ QuartilesKept
    /\ passes[1].info.outlier_count > 0
    /\ passes[1].out # passes[1].inp

\* C4: whenever feature selection runs, every feature column whose name
\* contains a protected substring is present in the table it leaves and is
\* listed in the feature-selection report with selected = true.
C4_ProtectedKeptAndReported ==
    [][(pc = "select" /\ feature_selection_applied' /\ error' = "") =>
           \A c \in Range(df_ml.cols) \ {input.target_col} :
               HasProtectedTerm(c) =>
                   /\ c \in Range(df_ml'.cols)
                   /\ \E r \in feature_scores' : r.feature = c /\ r.selected]_vars

ScalerFile == "feature_scaler.pkl"

\* the numeric features of the model-ready table, in its column order
FinalNumericInMl ==
    SelectSeq2(df_ml.cols, Range(final_numeric_cols) \ {input.target_col})

\* C5: the persisted scaler is keyed by the final numeric feature names in
\* their final order, and holds for each of them the (mean, scale) pair that
\* standardized the column: the mean and standard deviation of its values
\* before standardization.
C5_PersistedScalerIsFitScaler ==
    (pc \in {"save_ml", "summary", "done"} /\ ScalerFile \in DOMAIN outdir) =>
        /\ outdir[ScalerFile].feature_names_in = FinalNumericInMl
        /\ \A c \in Range(FinalNumericInMl) :
               /\ MeanOf(outdir[ScalerFile].stats[c]) = MeanOf(scaler.stats[c])
               /\ ScaleSqOf(outdir[ScalerFile].stats[c]) = ScaleSqOf(scaler.stats[c])

\* C6: whenever the feature schema of the selected model lacks one of the
\* numeric features of the scaler, the prediction fails with an error: it
\* returns no risk result of the calculator or of unscaled values.
C6_MismatchFailsLoudly ==
    (pc = "svc_answered" /\ ~request.malformed) =>
        LET gender == Lower(Get(request.gender, "male"))
            feature_schema ==
                IF gender = "female" /\ svc.women_model THEN svc.women_features
                ELSE IF gender = "male" /\ svc.men_model THEN svc.men_features
                ELSE NA
        IN  (/\ NotNull(feature_schema)
             /\ ~(Range(V(svc.feature_scaler).feature_names_in)
                    \subseteq Range(V(feature_schema))))
            => response.error # ""

\* C7: a reader of feature_scaler.pkl that runs while the pipeline writes it
\* reads no file, the complete file of an earlier run, or the complete new
\* file, and never a partly written one.
C7_ReaderSeesCompleteFile ==
    \A i \in DOMAIN observed : observed[i] \in {NA, Cell(OldBytes), Cell(NewBytes)}

\* The claim of C8 for a run that fails: no artifact has been written.
C8_FailedRunWritesNothing == pc = "failed" => DOMAIN outdir = {}

\* the steps of enhanced_preprocessing in their order
Steps == <<"clean", "classify", "impute", "outliers", "engineer",
           "high_cardinality", "save_readable", "encode", "scale", "select",
           "save_scaler", "save_ml", "summary", "done">>

StepNo(p) == CHOOSE i \in DOMAIN Steps : Steps[i] = p

\* the step the run is at: the next one, or the one that raised
RunIsAt ==
    IF pc # "failed" THEN pc
    ELSE IF error = "ValueError: Length mismatch" THEN "impute"
    ELSE IF error = "ValueError: Input y contains NaN" THEN "high_cardinality"
    ELSE "select"

Completed(step) == StepNo(step) < StepNo(RunIsAt)

\* the artifacts of the completed steps
ArtifactsDue ==
    (IF Completed("impute") THEN {"imputation_report.csv"} ELSE {})
    \cup (IF /\ Completed("outliers")
             /\ input.handle_outliers_method # "none"
             /\ Classify(DropDuplicates(input.df), input.target_col).numeric_cols # <<>>
          THEN {"outlier_treatment_report.csv"} ELSE {})
    \cup (IF Completed("high_cardinality") /\ encoding_info # <<>>
          THEN {"encoding_report.csv"} ELSE {})
    \cup (IF Completed("save_readable") THEN {"diabetes_enhanced_readable.csv"} ELSE {})
    \cup (IF Completed("select") /\ feature_selection_applied
          THEN {"feature_selection_report.csv"} ELSE {})
    \cup (IF Completed("save_scaler") /\ scaler # NoScaler /\ FinalNumericInMl # <<>>
          THEN {ScalerFile} ELSE {})
    \cup (IF Completed("save_ml") THEN {"diabetes_enhanced_ml_ready.csv"} ELSE {})
    \cup (IF Completed("summary") THEN {"processing_summary.csv"} ELSE {})

\* what each artifact holds
ArtifactHolds(name) ==
    CASE name = "imputation_report.csv" -> outdir[name] = imputation_info
      [] name = "outlier_treatment_report.csv" -> outdir[name] = outlier_info
      [] name = "encoding_report.csv" -> outdir[name] = encoding_info
      [] name = "diabetes_enhanced_readable.csv" -> outdir[name] = df_clean
      [] name = "feature_selection_report.csv" -> outdir[name] = feature_scores
      [] name = "diabetes_enhanced_ml_ready.csv" -> outdir[name] = df_ml
      [] OTHER -> TRUE

\* C8: at every point of a run, and so when a step raises, the output
\* directory holds exactly the artifacts of the steps completed so far, each
\* with the result of its step: a run that fails leaves the artifacts of the
\* steps before the failing one and none of a later step.
C8_ArtifactsOfCompletedSteps ==
    pc \in Range(Steps) \cup {"failed"} =>
        /\ DOMAIN outdir = ArtifactsDue
        /\ \A name \in ArtifactsDue : ArtifactHolds(name)

\* a run that failed at feature selection, after three steps wrote their files
C8_Witness ==
    /\ pc = "failed"
    /\ error = "ValueError: Input contains NaN"
    /\ {"imputation_report.csv", "outlier_treatment_report.csv",
        "diabetes_enhanced_readable.csv"} \subseteq DOMAIN outdir

\* the bucket the specification gives a bmi value: lower bounds inclusive
BmiBucket(v) ==
    IF v < Num(18) + Half THEN "underweight"
    ELSE IF v < Num(25) THEN "normal"
    ELSE IF v < Num(30) THEN "overweight"
    ELSE IF v < Num(35) THEN "obese_1"
    ELSE "obese_2"

\* C9: for every bmi value feature_engineering sets bmi_risk_level to
\* underweight below 18.5, normal on [18.5, 25), overweight on [25, 30),
\* obese_1 on [30, 35) and obese_2 from 35 on; every value gets a bucket.
C9_BmiRiskLevelBuckets ==
    pc = "fe_done" =>
        \A i \in 1 .. fe_in.n :
            NotNull(fe_in.data["bmi"][i]) =>
                fe_out.data["bmi_risk_level"][i] = Cell(BmiBucket(V(fe_in.data["bmi"][i])))

\* the bucket the specification gives an age: lower bounds inclusive
AgeBucket(v) ==
    IF v < Num(35) THEN "low_risk"
    ELSE IF v < Num(45) THEN "moderate_risk"
    ELSE IF v < Num(65) THEN "high_risk"
    ELSE "very_high_risk"

\* C10: for every age feature_engineering sets age_diabetes_risk to low_risk
\* below 35, moderate_risk on [35, 45), high_risk on [45, 65) and
\* very_high_risk from 65 on.
C10_AgeDiabetesRiskBuckets ==
    pc = "fe_done" =>
        \A i \in 1 .. fe_in.n :
            NotNull(fe_in.data["age"][i]) =>
                fe_out.data["age_diabetes_risk"][i] = Cell(AgeBucket(V(fe_in.data["age"][i])))

\* The number of cells of s that hold x.
CountOf(s, x) == Cardinality({i \in DOMAIN s : s[i] = Cell(x)})

\* handle_high_cardinality_categorical groups col by frequency.
FrequencyGrouped(col) ==
    \/ col = "location"
    \/ ~(hc_in.target_col # "" /\ HasCol(hc_in.df, hc_in.target_col))

\* b is a with k most frequent values kept and every other value 'Other'.
KeepsTop(a, b, k) ==
    \E T \in SUBSET Range(DropNa(a)) :
        /\ Cardinality(T) = k
        /\ \A x \in T, y \in Range(DropNa(a)) \ T : CountOf(a, x) >= CountOf(a, y)
        /\ \A i \in DOMAIN a :
              NotNull(a[i]) => b[i] = (IF V(a[i]) \in T THEN a[i] ELSE Cell("Other"))

\* C11: a categorical column with more than max_categories distinct values
\* that is handled by frequency grouping (location, or any column when no
\* target is present) ends with at most max_categories + 1 distinct values:
\* the max_categories most frequent values unchanged, every other value
\* 'Other'.  A column with at most max_categories distinct values is left
\* unchanged.
C11_FrequencyGroupingBound ==
    (pc = "hc_done" /\ hc_out.err = "") =>
        \A col \in Range(hc_in.categorical_cols) :
            LET a == hc_in.df.data[col]
                b == hc_out.df.data[col]
                k == hc_in.max_categories
            IN  /\ NUnique(a) <= k => b = a
                /\ (NUnique(a) > k /\ FrequencyGrouped(col)) =>
                       /\ NUnique(b) <= k + 1
                       /\ KeepsTop(a, b, k)

\* A location column of three distinct values grouped with max_categories 2:
\* a value is kept and another becomes 'Other'.
C11_Witness ==
    /\ pc = "hc_done"
    /\ hc_out.err = ""
    /\ hc_in.max_categories = 2
    /\ NUnique(hc_in.df.data["location"]) = 3
    /\ \E i, j \in 1 .. hc_in.df.n :
          /\ hc_in.df.data["location"][i] = Cell("urban")
          /\ hc_out.df.data["location"][i] = Cell("urban")
          /\ hc_in.df.data["location"][j] = Cell("rural")
          /\ hc_out.df.data["location"][j] = Cell("Other")

\* The encoded table of step 10: does it pass the trigger, and its feature
\* columns by kind.
SelTriggered ==
    /\ sel_in.target_col # ""
    /\ HasCol(sel_in.ml, sel_in.target_col)
    /\ Len(sel_in.ml.cols) > 50
SelFeatures == Range(sel_in.ml.cols) \ {sel_in.target_col}
SelNumeric == {c \in SelFeatures : IsNumericDtype(sel_in.ml.dt[c])}
SelProtected == {c \in SelNumeric : HasProtectedTerm(c)}
SelSelectable == SelNumeric \ SelProtected
SelCategorical == SelFeatures \ SelNumeric

\* C12: whenever the encoded table has more than 50 columns and a target
\* column is present, the table that leaves step 10 has at most
\* protected_count + 15 + categorical_count + 1 columns.
C12_SelectedColumnBound ==
    (pc = "sel_done" /\ SelTriggered /\ sel_out.err = "") =>
        Len(sel_out.df.cols)
            <= Cardinality(SelProtected) + 15 + Cardinality(SelCategorical) + 1

\* C13: given the trigger, feature selection is applied if and only if at
\* least 30 selectable (non-protected) numeric feature columns remain, and it
\* then keeps exactly min(15, selectable count) of them; with fewer than 30
\* the columns are left unchanged and no report is written.
C13_AppliedIffThirtySelectable ==
    (pc = "sel_done" /\ SelTriggered /\ sel_out.err = "") =>
        /\ sel_out.applied <=> Cardinality(SelSelectable) >= 30
        /\ sel_out.applied =>
               Cardinality(Range(sel_out.df.cols) \cap SelSelectable)
                   = Min(15, Cardinality(SelSelectable))
        /\ ~sel_out.applied =>
               /\ sel_out.df.cols = sel_in.ml.cols
               /\ sel_out.report = {}

\* The table column classification receives.
Deduplicated == DropDuplicates(input.df)

\* C14: after column classification a numeric year column and a numeric
\* gestational_history column are categorical, their values are strings, and
\* every value that was missing before is still missing (not a string such
\* as 'nan').
C14_OverridePreservesMissing ==
    pc = "impute" =>
        \A col \in {"year", "gestational_history"} :
            (HasCol(Deduplicated, col) /\ IsNumericDtype(Deduplicated.dt[col])) =>
                /\ col \notin Range(numeric_cols)
                /\ col \in Range(categorical_cols)
                /\ df_clean.dt[col] = "object"
                /\ \A i \in 1 .. df_clean.n :
                      IF IsNull(Deduplicated.data[col][i])
                      THEN IsNull(df_clean.data[col][i])
                      ELSE df_clean.data[col][i]
                               = Cell(StrOfNum(V(Deduplicated.data[col][i]),
                                               Deduplicated.dt[col]))

\* The value the gender-aware rule gives the missing cell of row i of column
\* s, gender being the gender column (<<>> when the table has none).
GenderAwareFill(s, gender, i) ==
    IF gender = <<>> THEN Cell("Not Applicable")
    ELSE IF NotNull(gender[i]) /\ Lower(V(gender[i])) \in MalePatterns
    THEN Cell("Not Applicable")
    ELSE LET part == [j \in DOMAIN s |-> IF gender[j] = gender[i] THEN s[j] ELSE NA]
             m == Mode(part)
         IN  IF Len(m) > 0 THEN Cell(m[1]) ELSE Cell("No")

\* C15: after enhanced_imputation every missing value of a gender-linked
\* column (gestational_history, gestational_diabetes, pregnancy_history),
\* whatever the column's type, is filled by the gender-aware rule: 'Not
\* Applicable' in a male row or without a gender column, otherwise the mode
\* of the column within the row's gender partition, or 'No'.
C15_GenderAwarePrecedence ==
    (pc = "outliers" /\ error = "") =>
        \A col \in GenderLinked \cap (Range(BeforeImputation.cols) \ {input.target_col}) :
            LET s == BeforeImputation.data[col]
                gender == IF HasCol(df_clean, "gender") THEN df_clean.data["gender"]
                          ELSE IF HasCol(df_clean, "sex") THEN df_clean.data["sex"]
                          ELSE <<>>
            IN  \A i \in DOMAIN s :
                    IsNull(s[i]) =>
                        /\ df_clean.dt[col] = "object"
                        /\ df_clean.data[col][i] = GenderAwareFill(s, gender, i)

\* The input file is missing, unreadable or empty, or the dataset has no rows.
InputError ==
    \/ main_in.file.kind \in {"missing", "unreadable", "empty"}
    \/ main_in.file.df.n = 0

\* C16: when the input file is missing or unreadable or the dataset is empty
\* (a header row without data rows included), main aborts before
\* comprehensive_eda or a preprocessing stage runs: no report and no output
\* artifact is written, and the process exits non-zero.
C16_InputErrorAbortsBeforeStages ==
    (pc # "main_load" /\ InputError) =>
        /\ "comprehensive_eda" \notin Range(called)
        /\ "enhanced_preprocessing" \notin Range(called)
        /\ reports = <<>>
        /\ outdir = <<>>
        /\ pc = "main_exit" => exit_code # 0

\* the file of name is written by the step being taken
Written(name) == name \in DOMAIN outdir' \ DOMAIN outdir

\* C17: the stages of enhanced_preprocessing run at most once each and in
\* the fixed order of Steps, each starting when the previous one has
\* finished (or the run fails); the stages up to high-cardinality encoding
\* work on df_clean, the readable table is written after them and before
\* one-hot encoding touches df_ml, and the model-ready table is written
\* only after scaling and selection.
C17_StagesInFixedOrder ==
    [][(pc \in Range(Steps) /\ pc # "done") =>
          /\ pc' \in {Steps[StepNo(pc) + 1], "failed"}
          /\ StepNo(pc) >= StepNo("save_readable") => df_clean' = df_clean
          /\ pc \notin {"encode", "scale", "select"} => df_ml' = df_ml
          /\ Written("diabetes_enhanced_readable.csv") =>
                 pc = "save_readable" /\ df_ml = EmptyTable
          /\ Written("diabetes_enhanced_ml_ready.csv") => pc = "save_ml"]_vars

\* a complete run with feature engineering: every stage has run, both
\* tables are written, the model-ready one with its indicator columns
C17_Witness ==
    /\ pc = "done"
    /\ error = ""
    /\ input.use_feature_engineering
    /\ input.handle_outliers_method = "cap"
    /\ {"diabetes_enhanced_readable.csv", "diabetes_enhanced_ml_ready.csv"}
           \subseteq DOMAIN outdir
    /\ Len(df_ml.cols) > Len(df_clean.cols)

\* The rows of table T are the rows of the de-duplicated input without the
\* rows in drop, in the same order: T has that many rows in every column, its
\* target column is the input's, and the gender of each row, where the input
\* has one, is the input's (as a value, or as its indicator column).
RowsKept(T, drop) ==
    LET D == Deduplicated
        y == KeepIdx(D.data[input.target_col], drop, 1)
        g == KeepIdx(D.data["gender"], drop, 1)
    IN  /\ T.n = D.n - Cardinality(drop)
        /\ \A c \in DOMAIN T.data : Len(T.data[c]) = T.n
        /\ T.data[input.target_col] = y
        /\ HasCol(T, "gender") =>
               \A i \in 1 .. T.n : NotNull(g[i]) => T.data["gender"][i] = g[i]
        /\ HasCol(T, "gender_Female") =>
               \A i \in 1 .. T.n :
                   NotNull(g[i]) =>
                       (T.data["gender_Female"][i] = Cell(1) <=> g[i] = Cell("Female"))

SameRows(T) ==
    IF input.handle_outliers_method = "remove"
    THEN \E drop \in SUBSET (1 .. Deduplicated.n) : RowsKept(T, drop)
    ELSE RowsKept(T, {})

\* C18: after de-duplication no stage adds or reorders rows: in cap and none
\* mode df_clean, df_ml and the two written tables hold exactly the rows of
\* the de-duplicated input in their order, and in remove mode a subsequence
\* of them.
C18_RowIdentityPreserved ==
    (pc \in Range(Steps) \cup {"failed"} /\ HasCol(input.df, input.target_col)) =>
        /\ df_clean.cols # <<>> => SameRows(df_clean)
        /\ df_ml.cols # <<>> => SameRows(df_ml)
        /\ \A name \in {"diabetes_enhanced_readable.csv", "diabetes_enhanced_ml_ready.csv"}
                          \cap DOMAIN outdir : SameRows(outdir[name])

\* a complete run in cap mode on five rows, one a duplicate: four rows in
\* both tables, the far age capped
C18_Witness ==
    /\ pc = "done"
    /\ input.handle_outliers_method = "cap"
    /\ input.df.n = 5
    /\ outdir["diabetes_enhanced_ml_ready.csv"].n = 4
    /\ outdir["diabetes_enhanced_readable.csv"].n = 4
    /\ \E i \in 1 .. 4 :
          /\ Deduplicated.data["age"][i] = Cell(Num(90))
          /\ outdir["diabetes_enhanced_readable.csv"].data["age"][i] # Cell(Num(90))

\* The values a / sqrt(d) of a scaled column have mean 0 and (population)
\* standard deviation 1: one d for all, sum of a = 0, sum of a^2 = n * d.
Standardized(z) ==
    LET a == [i \in DOMAIN z |-> z[i].a]
    IN  /\ \A i \in DOMAIN z : z[i].d = z[1].d /\ z[i].d > 0
        /\ SumInts(a) = 0
        /\ SumSq(a) = Len(z) * z[1].d

\* C19: the scaling step gives every column of final_numeric_cols whose
\* values differ mean 0 and standard deviation 1; a column of one repeated
\* value gets scale_ = 1 and becomes 0 everywhere; no cell becomes missing
\* by scaling.
C19_ScaledMeanZeroStdOne ==
    [][(pc = "scale" /\ pc' = "select") =>
          \A c \in Range(final_numeric_cols) :
              LET x == DropNa(df_ml.data[c])
                  z == DropNa(df_ml'.data[c])
              IN  /\ \A i \in 1 .. df_ml.n :
                         IsNull(df_ml'.data[c][i]) <=> IsNull(df_ml.data[c][i])
                  /\ Cardinality(Range(x)) > 1 => Standardized(z)
                  /\ Cardinality(Range(x)) = 1 =>
                         /\ ScaleSqOf(scaler'.stats[c]) = [num |-> 1, den |-> 1]
                         /\ \A i \in DOMAIN z : z[i] = [a |-> 0, d |-> 1]]_vars

\* scaling has run on a table with a column of differing values and a column
\* of one repeated value
C19_Witness ==
    /\ pc = "select"
    /\ \E c, k \in Range(final_numeric_cols) :
          /\ VarNum(scaler.stats[c]) > 0
          /\ Cardinality(Range(DropNa(df_ml.data[c]))) > 1
          /\ scaler.stats[k].n > 1
          /\ VarNum(scaler.stats[k]) = 0

\* C20: feature_engineering creates lifestyle_score exactly when the input
\* has both physical_activity and sleep_hours, and each of its cells is then
\* activity_score + sleep_quality of the row.
C20_LifestyleScoreNeedsBoth ==
    pc = "fe_done" =>
        /\ HasCol(fe_out, "lifestyle_score") <=>
               (HasCol(fe_in, "physical_activity") /\ HasCol(fe_in, "sleep_hours"))
        /\ HasCol(fe_out, "lifestyle_score") =>
               \A i \in 1 .. fe_out.n :
                   /\ HasCol(fe_out, "activity_score") /\ HasCol(fe_out, "sleep_quality")
                   /\ fe_out.data["lifestyle_score"][i] =
                          Cell(V(fe_out.data["activity_score"][i])
                               + V(fe_out.data["sleep_quality"][i]))

\* the encoding records handle_high_cardinality_categorical emitted for col
RecordsOf(col) == SelectSeq(hc_out.info, LAMBDA r : r.column = col)

\* C21: handle_high_cardinality_categorical emits one encoding record for
\* every categorical column with more than max_categories distinct values
\* and none for the others.  For such a column other than location: with a
\* target column it adds the numeric column <col>_target_encoded, leaves the
\* column itself unchanged and records target_encoding with the new column's
\* name; without a target it groups by frequency and records
\* frequency_grouping.
C21_TargetEncodingOrFallback ==
    pc = "hc_done" =>
        \A col \in Range(hc_in.categorical_cols) :
            LET a == hc_in.df.data[col]
                enc == TargetEncodedName(col)
            IN  IF NUnique(a) <= hc_in.max_categories
                THEN hc_out.err = "" /\ RecordsOf(col) = <<>>
                ELSE /\ hc_out.err = ""
                     /\ Len(RecordsOf(col)) = 1
                     /\ col # "location" =>
                            IF HasCol(hc_in.df, hc_in.target_col)
                            THEN /\ HasCol(hc_out.df, enc)
                                 /\ IsNumericDtype(hc_out.df.dt[enc])
                                 /\ hc_out.df.data[col] = a
                                 /\ RecordsOf(col)[1].method = "target_encoding"
                                 /\ RecordsOf(col)[1].new_column = enc
                            ELSE /\ ~HasCol(hc_out.df, enc)
                                 /\ hc_out.df.data[col] =
                                        GroupOther(a, TopCategories(a, hc_in.max_categories))
                                 /\ RecordsOf(col)[1].method = "frequency_grouping"

\* C22: handle_outliers in cap mode keeps the number of rows, leaves every
\* value inside [Q1 - m*IQR, Q3 + m*IQR] (bounds of the column before
\* capping) unchanged and replaces every value outside by the nearest bound,
\* so that every value of the result lies within the bounds.
C22_CapWithinBounds ==
    \A k \in DOMAIN passes :
        LET p == passes[k]
            b == IqrBounds(p.inp)
        IN  /\ Len(p.out) = Len(p.inp)
            /\ \A i \in DOMAIN p.inp :
                   IF IsNull(p.inp[i]) THEN IsNull(p.out[i])
                   ELSE /\ NotNull(p.out[i])
                        /\ V(b.lower) <= V(p.out[i]) /\ V(p.out[i]) <= V(b.upper)
                        /\ V(p.inp[i]) < V(b.lower) => p.out[i] = b.lower
                        /\ V(p.inp[i]) > V(b.upper) => p.out[i] = b.upper
                        /\ (V(b.lower) <= V(p.inp[i]) /\ V(p.inp[i]) <= V(b.upper))
                               => p.out[i] = p.inp[i]

\* a column with a value below the lower bound, one above the upper bound
\* and one inside, capped
C22_Witness ==
    /\ passes # <<>>
    /\ LET p == passes[1]
           b == IqrBounds(p.inp)
       IN  /\ NotNull(b.lower)
           /\ V(b.lower) < V(b.upper)
           /\ \E i, j, k \in DOMAIN p.inp :
                 /\ NotNull(p.inp[i]) /\ V(p.inp[i]) < V(b.lower) /\ p.out[i] = b.lower
                 /\ NotNull(p.inp[j]) /\ V(p.inp[j]) > V(b.upper) /\ p.out[j] = b.upper
                 /\ NotNull(p.inp[k]) /\ p.out[k] = p.inp[k]

\* the fields of an outlier record
OutlierRecordFields ==
    {"outlier_count", "outlier_percentage", "lower_bound", "upper_bound", "method_applied"}

\* C23: in cap and remove mode handle_outliers emits one outlier record for
\* every numeric feature column, with or without outliers, and every record
\* carries the outlier count, the outlier percentage, the lower and upper
\* bound and the method applied.
C23_OutlierRecordPerColumn ==
    (pc = "engineer" /\ input.handle_outliers_method \in {"cap", "remove"}) =>
        /\ DOMAIN outlier_info = Range(numeric_cols)
        /\ \A c \in DOMAIN outlier_info : OutlierRecordFields \subseteq DOMAIN outlier_info[c]

LabelFeatures == {"bmi_risk_level", "age_diabetes_risk"}
NumericFeaturesNew ==
    {"health_risk_score", "activity_score", "sleep_quality", "lifestyle_score",
     "location_risk"}

\* C24: after the feature-engineering stage every new label-valued column is
\* in categorical_cols and not in numeric_cols, and every new numeric column
\* is in numeric_cols and not in categorical_cols; after encoding and
\* scaling the label-valued columns are replaced by indicator columns and
\* the numeric ones are among the scaled columns.
C24_NewFeaturesInRoleSets ==
    /\ (pc \in Range(Steps) /\ StepNo(pc) > StepNo("engineer")) =>
           \A f \in Range(new_features) :
               /\ f \in LabelFeatures =>
                      f \in Range(categorical_cols) /\ f \notin Range(numeric_cols)
               /\ f \in NumericFeaturesNew =>
                      f \in Range(numeric_cols) /\ f \notin Range(categorical_cols)
    /\ (pc \in Range(Steps) /\ StepNo(pc) > StepNo("scale")) =>
           \A f \in Range(new_features) :
               /\ f \in LabelFeatures => ~HasCol(df_ml, f)
               /\ f \in NumericFeaturesNew => f \in Range(final_numeric_cols)

\* C25: processing_summary.csv reports feature_selection_applied = 'Yes'
\* exactly when step 10 ran the selection, and 'No' otherwise.
C25_SummaryReportsSelection ==
    (pc = "done" /\ "processing_summary.csv" \in DOMAIN outdir) =>
        LET reported == outdir["processing_summary.csv"].feature_selection_applied
        IN  /\ reported \in {"Yes", "No"}
            /\ reported = "Yes" <=> feature_selection_applied

\* the target column of table T holds the target values of the rows kept
TargetKept(T) ==
    LET y == Deduplicated.data[input.target_col]
    IN  /\ HasCol(T, input.target_col)
        /\ IF input.handle_outliers_method = "remove"
           THEN \E drop \in SUBSET (1 .. Deduplicated.n) :
                    T.data[input.target_col] = KeepIdx(y, drop, 1)
           ELSE T.data[input.target_col] = y

\* C26: no stage of enhanced_preprocessing touches the target column: it is
\* in none of the feature lists, has no imputation or outlier record, is not
\* among the encoded or scaled columns, and in df_clean, df_ml and the two
\* written tables every row kept has the target value of the input.
C26_TargetUntouched ==
    (pc \in Range(Steps) \cup {"failed"} /\ HasCol(input.df, input.target_col)) =>
        LET t == input.target_col
        IN  /\ t \notin Range(numeric_cols) \cup Range(categorical_cols)
            /\ t \notin Range(categorical_for_encoding) \cup Range(final_numeric_cols)
            /\ t \notin {imputation_info[k].column : k \in DOMAIN imputation_info}
            /\ t \notin DOMAIN outlier_info
            /\ t \notin Range(scaler.feature_names_in)
            /\ df_clean.cols # <<>> => TargetKept(df_clean)
            /\ df_ml.cols # <<>> => TargetKept(df_ml)
            /\ \A name \in {"diabetes_enhanced_readable.csv",
                             "diabetes_enhanced_ml_ready.csv"} \cap DOMAIN outdir :
                   TargetKept(outdir[name])

\* a complete run that imputed, encoded and scaled feature columns of a
\* table whose target has a missing and a present value
C26_Witness ==
    /\ pc = "done"
    /\ HasCol(input.df, input.target_col)
    /\ imputation_info # <<>>
    /\ categorical_for_encoding # <<>>
    /\ scaler.feature_names_in # <<>>
    /\ "diabetes_enhanced_ml_ready.csv" \in DOMAIN outdir
    /\ LET y == outdir["diabetes_enhanced_ml_ready.csv"].data[input.target_col]
       IN  \E i, j \in DOMAIN y : IsNull(y[i]) /\ y[j] = Cell(Num(1))

\* the median of column s within the target class of row i; NA when the row
\* has no target value or its class has no observed value
ClassMedian(s, y, i) ==
    IF IsNull(y[i]) THEN NA
    ELSE Median([j \in DOMAIN s |-> IF y[j] = y[i] THEN s[j] ELSE NA])

\* C27: enhanced_imputation fills a missing value of a medical numeric column,
\* when the target column is in the table, with the median of the column in
\* the row's target class, or with the column's global median when that
\* median is undefined, and records group_median; it fills every other
\* numeric column, and a medical one when the table has no target column,
\* with the global median and records median.
C27_GroupMedianImputation ==
    pc = "imp_done" =>
        \A col \in Range(imp_in.numeric_cols) :
            LET s == imp_in.df.data[col]
                grouped == col \in MedicalFeatures /\ HasCol(imp_in.df, imp_in.target_col)
                recs == SelectSeq(imp_out.info, LAMBDA r : r.column = col)
            IN  NullCount(s) > 0 =>
                    /\ Len(recs) = 1
                    /\ recs[1].imputation_method =
                           (IF grouped THEN "group_median" ELSE "median")
                    /\ \A i \in DOMAIN s :
                           IsNull(s[i]) =>
                               imp_out.df.data[col][i] =
                                   IF grouped /\ NotNull(ClassMedian(s, imp_in.df.data[imp_in.target_col], i))
                                   THEN ClassMedian(s, imp_in.df.data[imp_in.target_col], i)
                                   ELSE Median(s)

\* no feature column of the input has a missing value
NoMissingFeature ==
    \A c \in Range(input.df.cols) \ {input.target_col} :
        NullCount(input.df.data[c]) = 0

\* C28: on an input without a missing value in any feature column
\* enhanced_preprocessing does not fail: imputation yields no record, the
\* imputation report is written without rows, and the run goes on through
\* the later stages.
C28_CompletesWithoutMissing ==
    (pc \in Range(Steps) \cup {"failed"} /\ NoMissingFeature) =>
        /\ pc # "failed"
        /\ StepNo(pc) > StepNo("impute") =>
               /\ imputation_info = <<>>
               /\ "imputation_report.csv" \in DOMAIN outdir
               /\ outdir["imputation_report.csv"] = <<>>

\* C29: enhanced_imputation changes only missing cells: every value present
\* in its argument table is the same in the table it returns, in every
\* column and every row.
C29_ImputationKeepsPresentValues ==
    pc = "imp_done" =>
        /\ imp_out.df.n = imp_in.df.n
        /\ imp_out.df.cols = imp_in.df.cols
        /\ \A c \in Range(imp_in.df.cols) :
               \A i \in 1 .. imp_in.df.n :
                   NotNull(imp_in.df.data[c][i]) =>
                       imp_out.df.data[c][i] = imp_in.df.data[c][i]

\* bmi_risk_categories and age_risk_categories of preprocess_input: the
\* category behind the index it puts into features
ServingBmiCategories == <<"normal", "underweight", "overweight", "obese_1", "obese_2">>
ServingAgeCategories == <<"low_risk", "moderate_risk", "high_risk", "very_high_risk">>

ServedFeatures == PreprocessInput(request, Lower(Get(request.gender, "male"))).features

\* C30: for the bmi and the age of a request, the bmi_risk_level and
\* age_diabetes_risk category preprocess_input computes is the category
\* feature_engineering's pd.cut gives that bmi and that age.
C30_ServingBucketsMatchTraining ==
    (pc = "svc_answered" /\ ~request.malformed) =>
        LET f == ServedFeatures
        IN  /\ Cell(ServingBmiCategories[V(f.bmi_risk_level) + 1])
                   = CutCell(f.bmi, BmiBins, BmiLabels)
            /\ Cell(ServingAgeCategories[V(f.age_diabetes_risk) + 1])
                   = CutCell(f.age, AgeBins, AgeLabels)

====
